---- MODULE Spec2Model ----
(***************************************************************************)
(* Model of the chess-control repository: the command parser               *)
(* (lib/commands.js), the shell command builders (lib/ssh.js), the         *)
(* orchestrated run of suspend-chess.js, the web app that spawns it, and   *)
(* the two ntfy front-ends that call it in their own process: the webhook  *)
(* listener (ntfy/ntfy-listener.js) and the subscriber.                    *)
(*                                                                         *)
(* Text is modelled as a sequence of one-character strings, so that        *)
(* lower-casing, substring search, replacement and shell quoting are       *)
(* computed character by character.                                        *)
(***************************************************************************)
EXTENDS Integers, Sequences, FiniteSets, TLC

VARIABLES
  message,   \* parser input: the message argument of parseChessCommand
  tags,      \* parser input: the tags argument of parseChessCommand
  parsed,    \* parser output: "pending" before the call, then "true" | "false" | "null"
  shFn,      \* command builders: the function of lib/ssh.js that is called
  shText,    \* its text argument (str, command or hostsContent)
  shSecret,  \* the password argument of buildSudoCommand
  shPaths,   \* <<remoteHostsPath, remoteBackupPath>> of buildHostsUploadCommand
  shNames,   \* the browsers argument of buildBrowserKillCommand
  shOut,     \* [done, text]: the string the called function returned
  runs,             \* the orchestrated runs (calls of suspendChess)
  cfgSuspendChess,  \* SSH_CONFIG.suspendChess of every process
  child,            \* the command-line processes (the web app spawns one per request)
  requests,         \* web app: the POST /api/block and /api/allow requests
  lastAction,       \* web app: the lastAction variable of server.js
  proc,             \* [program, up]: the front-end program and whether it still runs
  hooks,            \* listener: the POST /ntfy-webhook requests
  subscriber,       \* subscriber: the state of subscribeToNtfy
  localFiles,       \* the text of the policy files of the config directory
  target,           \* the target host: its files and the shells of its sessions
  monitor,          \* the profile monitor: previousState, alertState, last poll
  lichess           \* the account at Lichess: the day and the games played today

parseVars == <<message, tags, parsed>>
shellVars == <<shFn, shText, shSecret, shPaths, shNames, shOut>>
frontVars == <<proc, hooks, subscriber>>
orchVars == <<runs, cfgSuspendChess, child, requests, lastAction, frontVars>>
sideVars == <<localFiles, target, monitor, lichess>>
vars == <<parseVars, shellVars, orchVars, sideVars>>

(***************************************************************************)
(* Bounds of the model.                                                    *)
(***************************************************************************)
MaxWords == 2
MaxTags == 2
MaxLen == 3
MaxNames == 2
MaxRequests == 2
MaxOpens == 2
MaxChunk == 2

(***************************************************************************)
(* Text helpers.                                                           *)
(***************************************************************************)
UpperLetters ==
  <<"A","B","C","D","E","F","G","H","I","J","K","L","M",
    "N","O","P","Q","R","S","T","U","V","W","X","Y","Z">>

LowerLetters ==
  <<"a","b","c","d","e","f","g","h","i","j","k","l","m",
    "n","o","p","q","r","s","t","u","v","w","x","y","z">>

\* One character of String.prototype.toLowerCase.
LowerChar(c) ==
  IF \E i \in 1..26 : UpperLetters[i] = c
  THEN LowerLetters[CHOOSE i \in 1..26 : UpperLetters[i] = c]
  ELSE c

\* String.prototype.toLowerCase.
toLowerCase(s) == [i \in 1..Len(s) |-> LowerChar(s[i])]

\* String.prototype.includes: sub occurs in s as a contiguous run.
includes(s, sub) ==
  \E i \in 0..(Len(s) - Len(sub)) : SubSeq(s, i + 1, i + Len(sub)) = sub

\* Array.prototype.includes: some element equals x.
arrayIncludes(list, x) == \E i \in 1..Len(list) : list[i] = x

\* The concatenation of a sequence of texts.
RECURSIVE Concat(_)
Concat(parts) ==
  IF parts = <<>> THEN <<>> ELSE Head(parts) \o Concat(Tail(parts))

\* All sequences over S of length at most n.
SeqUpTo(S, n) == UNION {[1..k -> S] : k \in 0..n}

(***************************************************************************)
(* JavaScript values that may be absent: undefined, null or a value.       *)
(***************************************************************************)
Undefined == [kind |-> "undefined", val |-> <<>>]
Null == [kind |-> "null", val |-> <<>>]
Val(v) == [kind |-> "value", val |-> v]

(***************************************************************************)
(* lib/commands.js                                                         *)
(***************************************************************************)
kwBlock == <<"b","l","o","c","k">>
kwSuspend == <<"s","u","s","p","e","n","d">>
kwStopChess == <<"s","t","o","p"," ","c","h","e","s","s">>
kwDisableChess == <<"d","i","s","a","b","l","e"," ","c","h","e","s","s">>
kwAllow == <<"a","l","l","o","w">>
kwUnblock == <<"u","n","b","l","o","c","k">>
kwEnableChess == <<"e","n","a","b","l","e"," ","c","h","e","s","s">>
kwStartChess == <<"s","t","a","r","t"," ","c","h","e","s","s">>

\* const messageLower = message?.toLowerCase() || "";
messageLower(m) == IF m.kind = "value" THEN toLowerCase(m.val) ELSE <<>>

\* const tagsList = (tags || []).map((t) => t.toLowerCase());
\* (the default parameter tags = [] covers undefined, tags || [] covers null)
tagsList(t) ==
  IF t.kind = "value" THEN [i \in 1..Len(t.val) |-> toLowerCase(t.val[i])] ELSE <<>>

\* Mutant: a tag matches when it merely contains the keyword.
tagsSayBlock_Substring(tl) ==
  \E i \in 1..Len(tl) : includes(tl[i], kwBlock) \/ includes(tl[i], kwSuspend)

tagsSayBlock(tl) == arrayIncludes(tl, kwBlock) \/ arrayIncludes(tl, kwSuspend)

tagsSayAllow(tl) == arrayIncludes(tl, kwAllow) \/ arrayIncludes(tl, kwUnblock)

\* Mutant: the "stop chess" phrase is forgotten.
messageSaysBlock_NoStopChess(ml) ==
  \/ includes(ml, kwBlock)
  \/ includes(ml, kwSuspend)
  \/ includes(ml, kwDisableChess)

messageSaysBlock(ml) ==
  \/ includes(ml, kwBlock)
  \/ includes(ml, kwSuspend)
  \/ includes(ml, kwStopChess)
  \/ includes(ml, kwDisableChess)

messageSaysAllow(ml) ==
  \/ includes(ml, kwAllow)
  \/ includes(ml, kwUnblock)
  \/ includes(ml, kwEnableChess)
  \/ includes(ml, kwStartChess)

\* Mutant: the message is examined before the tags.
parseChessCommand_MessageFirst(m, t) ==
  LET ml == messageLower(m)
      tl == tagsList(t)
  IN  IF messageSaysBlock(ml) THEN "true"
      ELSE IF messageSaysAllow(ml) THEN "false"
      ELSE IF tagsSayBlock(tl) THEN "true"
      ELSE IF tagsSayAllow(tl) THEN "false"
      ELSE "null"

\* Mutant: the Allow substrings of the message are tested before the Block ones.
parseChessCommand_AllowFirst(m, t) ==
  LET ml == messageLower(m)
      tl == tagsList(t)
  IN  IF tagsSayBlock(tl) THEN "true"
      ELSE IF tagsSayAllow(tl) THEN "false"
      ELSE IF messageSaysAllow(ml) THEN "false"
      ELSE IF messageSaysBlock(ml) THEN "true"
      ELSE "null"

\* parseChessCommand: "true" to block, "false" to allow, "null" otherwise.
parseChessCommand(m, t) ==
  LET ml == messageLower(m)
      tl == tagsList(t)
  IN  IF tagsSayBlock(tl) THEN "true"
      ELSE IF tagsSayAllow(tl) THEN "false"
      ELSE IF messageSaysBlock(ml) THEN "true"
      ELSE IF messageSaysAllow(ml) THEN "false"
      ELSE "null"

(***************************************************************************)
(* lib/ssh.js: the command builders.                                       *)
(***************************************************************************)
\* The replacement text "'\\''" : quote, backslash, quote, quote.
QuoteReplacement == <<"'","\\","'","'">>

\* str.replace(/'/g, "'\\''"): a left-to-right scan that puts the replacement
\* for every match of the pattern and copies every other character.
RECURSIVE replaceQuotes(_)
replaceQuotes(str) ==
  IF str = <<>> THEN <<>>
  ELSE (IF Head(str) = "'" THEN QuoteReplacement ELSE <<Head(str)>>)
         \o replaceQuotes(Tail(str))

\* Mutant: the pattern without the g flag, so only the first quote is replaced.
escapeForShell_FirstOnly(str) ==
  IF \E i \in 1..Len(str) : str[i] = "'"
  THEN LET k == CHOOSE i \in 1..Len(str) :
                  str[i] = "'" /\ \A j \in 1..(i - 1) : str[j] # "'"
       IN  SubSeq(str, 1, k - 1) \o QuoteReplacement \o SubSeq(str, k + 1, Len(str))
  ELSE str

escapeForShell(str) == replaceQuotes(str)

\* Mutant: the command is embedded as it is.
buildSudoCommand_RawCommand(password, command) ==
  <<"e","c","h","o"," ","'">> \o escapeForShell(password)
    \o <<"'"," ","|"," ","s","u","d","o"," ","-","S"," ","b","a","s","h"," ","-","c"," ","'">>
    \o command \o <<"'">>

\* Mutant: the password is embedded as it is.
buildSudoCommand_RawPassword(password, command) ==
  <<"e","c","h","o"," ","'">> \o password
    \o <<"'"," ","|"," ","s","u","d","o"," ","-","S"," ","b","a","s","h"," ","-","c"," ","'">>
    \o replaceQuotes(command) \o <<"'">>

buildSudoCommand(password, command) ==
  LET escapedCommand == replaceQuotes(command)
  IN  <<"e","c","h","o"," ","'">> \o escapeForShell(password)
        \o <<"'"," ","|"," ","s","u","d","o"," ","-","S"," ","b","a","s","h"," ","-","c"," ","'">>
        \o escapedCommand \o <<"'">>

\* Mutant: the overwrite comes first and the backup copy second.
buildHostsUploadCommand_WriteFirst(remoteHostsPath, remoteBackupPath, hostsContent) ==
  <<"p","r","i","n","t","f"," ","'","%","s","\\","n","'"," ","'">>
    \o replaceQuotes(hostsContent) \o <<"'"," ",">"," ">> \o remoteHostsPath
    \o <<" ","&","&"," ","c","p"," ">> \o remoteHostsPath \o <<" ">> \o remoteBackupPath

buildHostsUploadCommand(remoteHostsPath, remoteBackupPath, hostsContent) ==
  LET escapedContent == replaceQuotes(hostsContent)
  IN  <<"c","p"," ">> \o remoteHostsPath \o <<" ">> \o remoteBackupPath
        \o <<" ","&","&"," ","p","r","i","n","t","f"," ","'","%","s","\\","n","'"," ","'">>
        \o escapedContent \o <<"'"," ",">"," ">> \o remoteHostsPath

\* Array.prototype.join(sep).
RECURSIVE join(_, _)
join(list, sep) ==
  IF list = <<>> THEN <<>>
  ELSE IF Len(list) = 1 THEN Head(list)
  ELSE Head(list) \o sep \o join(Tail(list), sep)

\* Mutant: one pattern per name, each quoted on its own.
buildBrowserKillCommand_PerName(browsers) ==
  <<"p","k","i","l","l"," ","-","f"," ","'">> \o join(browsers, <<"'"," ","'">>)
    \o <<"'"," ","|","|"," ","t","r","u","e">>

buildBrowserKillCommand(browsers) ==
  LET browserList == join(browsers, <<" ">>)
  IN  <<"p","k","i","l","l"," ","-","f"," ","'">> \o browserList
        \o <<"'"," ","|","|"," ","t","r","u","e">>

(***************************************************************************)
(* The shell that receives a built command (conn.exec hands the string to  *)
(* the remote login shell).  Only the quoting rules the builders rely on   *)
(* are modelled: blanks separate words, a single quote opens a segment     *)
(* that runs literally to the next single quote, and a backslash outside   *)
(* quotes makes the next character literal.  The result is the list of     *)
(* words and whether every quoted segment was closed.                      *)
(***************************************************************************)
ShellStart ==
  [inQuote |-> FALSE, escaped |-> FALSE, cur |-> <<>>, hasCur |-> FALSE, words |-> <<>>]

\* The scanner's state after character c.
ShellStep(st, c) ==
  IF st.escaped
    THEN [st EXCEPT !.escaped = FALSE, !.cur = Append(@, c), !.hasCur = TRUE]
  ELSE IF st.inQuote
    THEN IF c = "'"
         THEN [st EXCEPT !.inQuote = FALSE]
         ELSE [st EXCEPT !.cur = Append(@, c)]
  ELSE IF c = "'"
    THEN [st EXCEPT !.inQuote = TRUE, !.hasCur = TRUE]
  ELSE IF c = "\\"
    THEN [st EXCEPT !.escaped = TRUE]
  ELSE IF c = " "
    THEN [st EXCEPT !.cur = <<>>, !.hasCur = FALSE,
                    !.words = IF st.hasCur THEN Append(@, st.cur) ELSE @]
  ELSE [st EXCEPT !.cur = Append(@, c), !.hasCur = TRUE]

\* The scanner's state after the characters lo..hi of command, read from left
\* to right starting in state st.  The range is halved, and st is read before
\* the range is entered, only to keep the evaluation shallow: the characters
\* are still consumed in order.
RECURSIVE ShellScan(_, _, _, _)
ShellScan(command, lo, hi, st) ==
  IF st.inQuote \notin BOOLEAN \/ lo > hi THEN st
  ELSE IF lo = hi THEN ShellStep(st, command[lo])
  ELSE LET mid == (lo + hi) \div 2
       IN  ShellScan(command, mid + 1, hi, ShellScan(command, lo, mid, st))

ShellWords(command) ==
  LET st == ShellScan(command, 1, Len(command), ShellStart)
  IN  [closed |-> ~st.inQuote,
       words |-> IF st.hasCur THEN Append(st.words, st.cur) ELSE st.words]

(***************************************************************************)
(* suspend-chess.js: configuration.                                        *)
(***************************************************************************)
\* SSH_CONFIG.suspendChess as configured: the default intent.
DefaultSuspendChess == TRUE

\* SSH_CONFIG.password when SSH_PASSWORD is not set.  It is never empty, so
\* establishSSHConnection never prompts for it.
ConfiguredPassword == <<"p","a","s","s","w","o","r","d">>

WaitTimeMinutes == 0
UpdateIntervalSeconds == 2
REMOTE_HOSTS_PATH == <<"/","e","t","c","/","h","o","s","t","s">>
REMOTE_HOSTS_BACKUP_PATH ==
  <<"/","e","t","c","/","h","o","s","t","s",".","b","a","c","k","u","p">>
BROWSERS_TO_KILL == << <<"f","i","r","e","f","o","x">>, <<"b","r","a","v","e">> >>
PKILL_SUCCESS_CODE == 0
PKILL_NO_PROCESSES_CODE == 1
EXIT_SUCCESS == 0
EXIT_ERROR == 1
ARG_BLOCK == <<"b","l","o","c","k">>
ARG_ALLOW == <<"a","l","l","o","w">>

\* HOSTS_FILE_NAMES and the choice made in readLocalHostsFile.
hostsFileName(isBlocking) ==
  IF isBlocking THEN "hostsuncommented" ELSE "hostscommented"

\* The text of the two files of the config directory (two short texts stand
\* for them; the second holds a single quote).
LocalFileContent(fileName) ==
  IF fileName = "hostsuncommented"
  THEN <<"0"," ","l","i","\n">>
  ELSE <<"#","'","l","i","\n">>

\* The config directory as it is installed.
InstalledFiles ==
  [fileName \in {"hostsuncommented", "hostscommented"} |-> LocalFileContent(fileName)]

\* Mutant: the text is the one the file had when it was installed, as if it
\* were read once and kept.
readLocalHostsFile_Cached(files, isBlocking, readable) ==
  IF readable
  THEN [ok |-> TRUE, text |-> InstalledFiles[hostsFileName(isBlocking)]]
  ELSE [ok |-> FALSE, text |-> <<>>]

\* readLocalHostsFile: the whole text of the file chosen by isBlocking, as
\* fs.readFileSync gives it at the time of the call, or the error "Failed to
\* read hosts file" when it throws.
readLocalHostsFile(files, isBlocking, readable) ==
  IF readable
  THEN [ok |-> TRUE, text |-> files[hostsFileName(isBlocking)]]
  ELSE [ok |-> FALSE, text |-> <<>>]

buildCompleteUploadCommand(password, hostsContent) ==
  LET uploadPart ==
        buildHostsUploadCommand(REMOTE_HOSTS_PATH, REMOTE_HOSTS_BACKUP_PATH, hostsContent)
  IN  buildSudoCommand(password, uploadPart)

\* Mutant: the argument is compared as it was typed.
parseCommandLineArgs_CaseSensitive(args, configured) ==
  IF Len(args) = 0 THEN (IF configured THEN "true" ELSE "false")
  ELSE IF Len(args) = 1
    THEN IF args[1] = ARG_BLOCK THEN "true"
         ELSE IF args[1] = ARG_ALLOW THEN "false"
         ELSE "null"
  ELSE "null"

\* parseCommandLineArgs: "true" | "false" for a mode, "null" for a usage error.
parseCommandLineArgs(args, configured) ==
  IF Len(args) = 0 THEN (IF configured THEN "true" ELSE "false")
  ELSE IF Len(args) = 1
    THEN LET command == toLowerCase(args[1])
         IN  IF command = ARG_BLOCK THEN "true"
             ELSE IF command = ARG_ALLOW THEN "false"
             ELSE "null"
  ELSE "null"

(***************************************************************************)
(* One orchestrated run: a call of suspendChess.                           *)
(*   pc              where the call is suspended: idle, delaying,          *)
(*                   connecting, uploading, killing, done, failed,         *)
(*                   cancelled (the process exited during the delay)       *)
(*   shouldBlock     the argument of suspendChess                          *)
(*   originalSetting the local of suspendChess                             *)
(*   elapsedSeconds, sigintHandler   the state of startTimer               *)
(*   connects, ends  how often conn became ready / conn.end() was called   *)
(*   sent, results   the commands handed to conn.exec and what each gave   *)
(*   killIndex       the position in BROWSERS_TO_KILL of the kill in flight*)
(*   pkillCodes      the exit code of pkill itself in every kill command   *)
(*   killLog         what killBrowserProcess logged for every kill result  *)
(*   error           the error the call threw                              *)
(***************************************************************************)
NoError == [kind |-> "none", code |-> 0]

IdleRun ==
  [pc |-> "idle", shouldBlock |-> DefaultSuspendChess,
   originalSetting |-> DefaultSuspendChess,
   elapsedSeconds |-> 0, sigintHandler |-> FALSE,
   connects |-> 0, ends |-> 0, sent |-> <<>>, results |-> <<>>,
   killIndex |-> 0, pkillCodes |-> <<>>, killLog |-> <<>>,
   error |-> NoError]

\* What conn.exec can give for a command: the exit code of the remote shell,
\* or an error of the channel.
ExitWith(code) == [kind |-> "exit", code |-> code]
ChannelError == [kind |-> "channelError", code |-> 0]

\* Mutant: startTimer installs no SIGINT handler.
suspendChessEnter_NoHandler(run, shouldBlock, setting) ==
  [run EXCEPT !.pc = "delaying", !.shouldBlock = shouldBlock,
              !.originalSetting = setting,
              !.elapsedSeconds = 0, !.sigintHandler = FALSE]

\* suspendChess up to its first await: the setting is saved and startTimer
\* creates the interval and installs the SIGINT handler.
suspendChessEnter(run, shouldBlock, setting) ==
  [run EXCEPT !.pc = "delaying", !.shouldBlock = shouldBlock,
              !.originalSetting = setting,
              !.elapsedSeconds = 0, !.sigintHandler = TRUE]

\* One firing of the interval of startTimer.
timerElapsed(run) == run.elapsedSeconds + UpdateIntervalSeconds

timerCompleted(run) == (WaitTimeMinutes * 60) - timerElapsed(run) <= 0

\* Mutant: a non-zero exit code of the upload is not treated as a failure.
uploadFailed_Never(code) == FALSE

\* uploadHostsFile: if (code !== 0) throw.
uploadFailed(code) == code # 0

\* Mutant: conn.end() in a catch block that rethrows, not in a finally block.
executeRemoteCommandsExit_EndOnErrorOnly(run, err) ==
  [run EXCEPT !.pc = IF err.kind = "none" THEN "done" ELSE "failed",
              !.ends = IF err.kind = "none" THEN @ ELSE @ + 1,
              !.error = err]

\* Mutant: the error is caught and not rethrown, so the call returns.
executeRemoteCommandsExit_Swallowed(run, err) ==
  [run EXCEPT !.pc = "done", !.ends = @ + 1, !.error = err]

\* Mutant: conn.end() at the end of the try block, not in a finally block.
executeRemoteCommandsExit_NoFinally(run, err) ==
  [run EXCEPT !.pc = IF err.kind = "none" THEN "done" ELSE "failed",
              !.ends = IF err.kind = "none" THEN @ + 1 ELSE @,
              !.error = err]

\* The way out of executeRemoteCommands and suspendChess: the finally block
\* calls conn.end(), then the call returns or rethrows err.
executeRemoteCommandsExit(run, err) ==
  [run EXCEPT !.pc = IF err.kind = "none" THEN "done" ELSE "failed",
              !.ends = @ + 1,
              !.error = err]

\* executeCommand(command): the command is handed to conn.exec.
sendCommand(run, command) == [run EXCEPT !.sent = Append(@, command)]

\* The result of the command in flight arrives.
gotResult(run, outcome) == [run EXCEPT !.results = Append(@, outcome)]

\* Mutant: one command for all the configured names.
killBrowserProcessCommand_AllNames(browserName) ==
  buildBrowserKillCommand(BROWSERS_TO_KILL)

\* killBrowserProcess: the command for one browser name.
killBrowserProcessCommand(browserName) ==
  buildBrowserKillCommand(<<browserName>>)

\* killBrowserProcess: the branch taken for an exit code.
killBrowserProcessLog(code) ==
  IF code = PKILL_SUCCESS_CODE THEN "killed"
  ELSE IF code = PKILL_NO_PROCESSES_CODE THEN "none found"
  ELSE "failed"

\* The exit code a shell gives a command line whose last list is
\* "<command> || true": the code of true when <command> fails.
EndsWith(text, suffix) ==
  /\ Len(text) >= Len(suffix)
  /\ SubSeq(text, Len(text) - Len(suffix) + 1, Len(text)) = suffix

\* Mutant: the code of the command line is that of its first command.
shellExitCode_Raw(command, rawCode) == rawCode

shellExitCode(command, rawCode) ==
  IF EndsWith(command, <<" ","|","|"," ","t","r","u","e">>) THEN 0 ELSE rawCode

(***************************************************************************)
(* The front-end programs.  The web app spawns one command-line process    *)
(* per request; the listener and the subscriber call suspendChess inside   *)
(* their own process, so all their runs share one SSH_CONFIG.              *)
(***************************************************************************)
NoProgram == [program |-> "none", up |-> FALSE]

\* The runs are made by command-line processes, one run each: the processes
\* the web app spawns ("webapp"), or processes started by hand ("cli").
OwnProcessPerRun == proc.program \in {"webapp", "cli"}

\* The process whose SSH_CONFIG the run q uses.
ProcessOf(q) == IF OwnProcessPerRun THEN q ELSE 1

(***************************************************************************)
(* ntfy/ntfy-listener.js: POST /ntfy-webhook.                              *)
(*   phase      none, ignored, awaiting (the run), completed, or rejected  *)
(*              (the handler's promise rejected)                           *)
(*   shouldBlock  what parseChessCommand returned                          *)
(*   responses  the responses that went out                                *)
(*   sendCalls  how often the handler called res.json                      *)
(*   events     the calls of the handler in order: "res.json" and          *)
(*              "suspendChess"                                             *)
(***************************************************************************)
NoHook ==
  [phase |-> "none", message |-> Undefined, tags |-> Undefined,
   shouldBlock |-> "pending", responses |-> <<>>, sendCalls |-> 0,
   events |-> <<>>]

ignoredResponse ==
  [http |-> 200, status |-> "ignored", action |-> "none",
   message |-> "Not a valid chess command"]

\* Mutant: the action text does not follow the intent.
acceptedResponse_AlwaysBlocking(shouldBlock) ==
  [http |-> 200, status |-> "accepted", action |-> "blocking",
   message |-> "Processing chess command..."]

acceptedResponse(shouldBlock) ==
  [http |-> 200, status |-> "accepted",
   action |-> IF shouldBlock THEN "blocking" ELSE "allowing",
   message |-> "Processing chess command..."]

errorResponse ==
  [http |-> 500, status |-> "error", action |-> "none", message |-> "error.message"]

\* res.json(body): the response goes out, unless one went out before: then
\* the call throws (the headers are sent already).
resJson(hook, response) ==
  IF hook.responses = <<>>
  THEN [hook EXCEPT !.responses = <<response>>, !.sendCalls = @ + 1,
                    !.events = Append(@, "res.json")]
  ELSE [hook EXCEPT !.sendCalls = @ + 1, !.events = Append(@, "res.json"),
                    !.phase = "rejected"]

\* Mutant: the handler tests for undefined, which the parser never returns.
webhookIgnores_Undefined(shouldBlock) == shouldBlock = "undefined"

\* if (shouldBlock === null)
webhookIgnores(shouldBlock) == shouldBlock = "null"

\* The handler from the acknowledgment to the call of suspendChess.
webhookAccept(hook, shouldBlock) ==
  [resJson(hook, acceptedResponse(shouldBlock = "true")) EXCEPT
     !.phase = "awaiting", !.events = Append(@, "suspendChess")]

\* The handler after the await: the catch block answers with status 500.
webhookAfterRun(hook, run) ==
  IF run.pc = "done"
  THEN [hook EXCEPT !.phase = "completed"]
  ELSE resJson([hook EXCEPT !.phase = "completed"], errorResponse)

(***************************************************************************)
(* The subscriber: subscribeToNtfy and handleNotification.                 *)
(*   pc       off, fetching (fetch pending), reading (reader.read()        *)
(*            pending), handling (a run in flight), waiting (the reconnect *)
(*            timeout pending)                                             *)
(*   opens    the number of calls of fetch so far                          *)
(*   openedHow  how the loop came to the last call of fetch: "start",      *)
(*            "afterDelay" (the reconnect timeout fired) or "atOnce"       *)
(*   endedHow how the connection before that ended, "none" for the first   *)
(*   chunk    the complete lines the last reader.read() gave               *)
(*   lines    the lines of the current chunk not yet dispatched            *)
(*   started  the number of runs started so far                            *)
(*   log      what was done with the lines of the current chunk so far,    *)
(*            and what handleNotification logged when a run ended          *)
(***************************************************************************)
NoSub ==
  [pc |-> "off", opens |-> 0, openedHow |-> "none", endedHow |-> "none",
   chunk |-> <<>>, lines |-> <<>>, started |-> 0, log |-> <<>>]

\* The lines of the stream: a line that is not JSON, a keepalive entry, and
\* message entries.
InvalidLine ==
  [json |-> FALSE, event |-> "message", message |-> Undefined, tags |-> Undefined]

Entry(event, m, t) == [json |-> TRUE, event |-> event, message |-> m, tags |-> t]

\* The lines that come over the stream: a line that is not JSON, a keepalive
\* entry whose message is a keyword, a message entry whose tag says allow,
\* and a message entry without a keyword.
SubLines ==
  { InvalidLine,
    Entry("keepalive", Val(<<"b","l","o","c","k">>), Undefined),
    Entry("message", Val(<<"h","i">>), Val(<< <<"A","l","l","o","w">> >>)),
    Entry("message", Val(<<"h","e","l","l","o">>), Val(<<>>)) }

\* handleNotification: parseChessCommand(notification.message,
\* notification.tags), for every line of the stream.
notificationCommand ==
  [line \in SubLines |-> parseChessCommand(line.message, line.tags)]

\* Mutant: handleNotification has no test for keepalive entries.
isKeepalive_Never(line) == FALSE

\* handleNotification: if (notification.event === "keepalive") return;
isKeepalive(line) == line.event = "keepalive"

\* Mutant: handleNotification is called without await, so the loop goes on
\* to the next line while the run is in flight.
RECURSIVE subscriberDispatch_NoAwait(_)
subscriberDispatch_NoAwait(st) ==
  IF st.sub.lines = <<>>
  THEN [st EXCEPT !.sub.pc = "reading"]
  ELSE LET line == Head(st.sub.lines)
           rest == [st EXCEPT !.sub.lines = Tail(@)]
           shouldBlock == notificationCommand[line]
           n == st.sub.started + 1
       IN  IF ~line.json
           THEN subscriberDispatch_NoAwait([rest EXCEPT !.sub.log = Append(@, "invalid")])
           ELSE IF isKeepalive(line)
           THEN subscriberDispatch_NoAwait([rest EXCEPT !.sub.log = Append(@, "keepalive")])
           ELSE IF shouldBlock = "null"
           THEN subscriberDispatch_NoAwait([rest EXCEPT !.sub.log = Append(@, "unrecognized")])
           ELSE subscriberDispatch_NoAwait(
                  [rest EXCEPT
                     !.sub.started = n,
                     !.sub.log = Append(@, "run"),
                     !.runs[n] = suspendChessEnter(@, shouldBlock = "true", st.cfg[1]),
                     !.cfg[1] = (shouldBlock = "true")])

\* The for loop over the lines of a chunk, up to the next await that waits
\* for something outside: the timer of a run, or the next reader.read().
RECURSIVE subscriberDispatch(_)
subscriberDispatch(st) ==
  IF st.sub.lines = <<>>
  THEN [st EXCEPT !.sub.pc = "reading"]
  ELSE LET line == Head(st.sub.lines)
           rest == [st EXCEPT !.sub.lines = Tail(@)]
           shouldBlock == notificationCommand[line]
           n == st.sub.started + 1
       IN  IF ~line.json
           THEN subscriberDispatch([rest EXCEPT !.sub.log = Append(@, "invalid")])
           ELSE IF isKeepalive(line)
           THEN subscriberDispatch([rest EXCEPT !.sub.log = Append(@, "keepalive")])
           ELSE IF shouldBlock = "null"
           THEN subscriberDispatch([rest EXCEPT !.sub.log = Append(@, "unrecognized")])
           ELSE [rest EXCEPT
                   !.sub.pc = "handling", !.sub.started = n,
                   !.sub.log = Append(@, "run"),
                   !.runs[n] = suspendChessEnter(@, shouldBlock = "true", st.cfg[1]),
                   !.cfg[1] = (shouldBlock = "true")]

\* handleNotification after its await: "Command completed successfully!" in
\* the try block, "Command failed:" in the catch block, which does not
\* rethrow.
handleNotificationAfterRun(s, run) ==
  [s EXCEPT !.log = Append(@, IF run.pc = "done" THEN "completed" ELSE "failed")]

\* The call of fetch at the top of the outer loop.
subscriberFetch(s, how) ==
  [s EXCEPT !.pc = "fetching", !.opens = @ + 1, !.openedHow = how]

\* The catch block of the outer loop: the error is logged and the reconnect
\* timeout is started.
subscriberCatch(s, why) == [s EXCEPT !.pc = "waiting", !.endedHow = why]

(***************************************************************************)
(* The target host, as far as the upload command uses it.                  *)
(***************************************************************************)
\* No target is modelled.
NoTarget == [files |-> <<>>, shells |-> <<>>]

\* The hosts file of the target before any upload of the program.
TargetHostsText == <<"1"," ","l","o","\n">>

\* The files of the target that the upload command names: the hosts file, and
\* the backup path, which no upload has written yet.
TargetFiles ==
  [path \in {REMOTE_HOSTS_PATH, REMOTE_HOSTS_BACKUP_PATH} |->
     IF path = REMOTE_HOSTS_PATH THEN TargetHostsText ELSE <<>>]

\* A session that has been given no command.
NoShell ==
  [pc |-> "none", todo |-> <<>>, code |-> 0,
   copied |-> FALSE, overwrote |-> FALSE, disturbed |-> FALSE, replaced |-> <<>>]

\* The argument of bash -c among the words the login shell makes of the
\* command: the script that sudo's bash runs.
RECURSIVE bashScript(_)
bashScript(words) ==
  IF Len(words) < 3 THEN <<>>
  ELSE IF words[1] = <<"b","a","s","h">> /\ words[2] = <<"-","c">> THEN words[3]
  ELSE bashScript(Tail(words))

\* The simple commands of an and-list: the words between the && operators.
\* (The scanner does not keep apart a quoted && from the operator; no text
\* uploaded here is that word.)
RECURSIVE andList(_, _)
andList(words, cur) ==
  IF words = <<>> THEN (IF cur = <<>> THEN <<>> ELSE <<cur>>)
  ELSE IF Head(words) = <<"&","&">> THEN <<cur>> \o andList(Tail(words), <<>>)
  ELSE andList(Tail(words), Append(cur, Head(words)))

\* The and-list that the target runs for a command given to conn.exec: the
\* login shell splits the command, bash -c splits its argument again.
targetScript(command) ==
  andList(ShellWords(bashScript(ShellWords(command).words)).words, <<>>)

\* printf with one argument: %s stands for the argument, \n for a newline,
\* every other character for itself.
RECURSIVE printfText(_, _)
printfText(format, arg) ==
  IF format = <<>> THEN <<>>
  ELSE IF Len(format) >= 2 /\ format[1] = "%" /\ format[2] = "s"
    THEN arg \o printfText(SubSeq(format, 3, Len(format)), arg)
  ELSE IF Len(format) >= 2 /\ format[1] = "\\" /\ format[2] = "n"
    THEN <<"\n">> \o printfText(SubSeq(format, 3, Len(format)), arg)
  ELSE <<Head(format)>> \o printfText(Tail(format), arg)

isCp(cmd) == Len(cmd) = 3 /\ cmd[1] = <<"c","p">>

isPrintfTo(cmd) ==
  Len(cmd) = 5 /\ cmd[1] = <<"p","r","i","n","t","f">> /\ cmd[4] = <<">">>

\* The files after a simple command that succeeds: cp source destination, or
\* printf format argument > path.
filesAfter(files, cmd) ==
  IF isCp(cmd) THEN [files EXCEPT ![cmd[3]] = files[cmd[2]]]
  ELSE IF isPrintfTo(cmd) THEN [files EXCEPT ![cmd[5]] = printfText(cmd[2], cmd[3])]
  ELSE files

\* Mutant: the list goes on after a command that fails, as with ";".
shellAfter_Sequence(sh, ok) ==
  [sh EXCEPT !.todo = Tail(@),
             !.pc = IF Len(sh.todo) = 1 THEN "exited" ELSE "running"]

\* The session after the first command of its and-list: a command that fails
\* ends the list with its exit code, the last command ends it with 0.
shellAfter(sh, ok) ==
  IF ~ok THEN [sh EXCEPT !.pc = "exited", !.code = 1, !.todo = <<>>]
  ELSE [sh EXCEPT !.todo = Tail(@),
                  !.pc = IF Len(sh.todo) = 1 THEN "exited" ELSE "running"]

(***************************************************************************)
(* The profile monitor.                                                    *)
(***************************************************************************)
\* No monitor and no account is modelled.
NoMonitor == [pc |-> "none"]
NoAccount == [day |-> "none", played |-> 0]

\* config.js: MONITOR_CONFIG.limits and alerts, and getInternalConfig.
maxGamesPerDay == 10
maxHoursPerDay == 2
maxMinutesPerGame == 15
showGameByGameBreakdown == FALSE
maxTimePerDay == maxHoursPerDay * 60 * 60
maxTimePerGame == maxMinutesPerGame * 60

\* The days of the account: on each, every game is of one kind.  A game of
\* the API has a clock (or none, for correspondence) and its moves; moves
\* stands for the number of moves in the API's space-separated string.
Days == {"blitz", "correspondence"}

GameOfDay(day, k) ==
  IF day = "blitz"
  THEN [id |-> <<day, k>>, clock |-> [initial |-> 180, increment |-> 0], moves |-> 10]
  ELSE [id |-> <<day, k>>, moves |-> 40]

\* The games of today as the API lists them: the newest first.
GamesOf(account) ==
  [i \in 1..account.played |-> GameOfDay(account.day, account.played + 1 - i)]

\* The map callback of fetchTodaysGames: the fields that are kept.  The
\* clock is not among them; timeControl is made of it.
processGame(game) ==
  [id |-> game.id,
   timeControl |-> IF "clock" \in DOMAIN game
                   THEN <<game.clock.initial \div 60, game.clock.increment>>
                   ELSE <<>>,
   moves |-> game.moves]

\* fetchTodaysGames: the processed games, or [] when the request or the
\* parsing throws.
fetchTodaysGames(account, ok) ==
  IF ok THEN [i \in 1..account.played |-> processGame(GamesOf(account)[i])]
  ELSE <<>>

Min(a, b) == IF a <= b THEN a ELSE b

\* The forEach callback of calculateTotalTimePlayedToday: the time of a game.
gameTimeSeconds(game) ==
  IF "clock" \in DOMAIN game
  THEN Min(game.clock.initial,
           game.moves * 30 + game.moves * game.clock.increment)
  ELSE game.moves * 60

RECURSIVE sumGameTimes(_)
sumGameTimes(games) ==
  IF games = <<>> THEN 0
  ELSE gameTimeSeconds(Head(games)) + sumGameTimes(Tail(games))

\* calculateTotalTimePlayedToday, given what its own call of fetchTodaysGames
\* returned: the total and the per-game details (for an empty list the total
\* is 0 and there are no details).
calculateTotalTimePlayedToday(todaysGames) ==
  [totalTimeSeconds |-> sumGameTimes(todaysGames),
   gameTimeDetails |->
     [i \in 1..Len(todaysGames) |->
        [id |-> todaysGames[i].id,
         estimatedTimeSeconds |-> gameTimeSeconds(todaysGames[i])]]]

\* The module-level state of the monitor when it is loaded.
InitialPreviousState ==
  [gameCount |-> 0, totalTimeSeconds |-> 0, lastGameId |-> "null"]

InitialAlertState ==
  [gameCountExceeded |-> FALSE, totalTimeExceeded |-> FALSE, longGameAlerted |-> {}]

\* The comparison of both limit checks.
limitReached(value, limit) == value >= limit

\* The timeout callback of resetDailyTracking, which runs at local midnight
\* if resetDailyTracking has been called: both records are set back and
\* resetDailyTracking is called again.  Without that call there is no timeout.
resetDailyTracking(m) ==
  IF m.resetTimer = "armed"
  THEN [m EXCEPT !.previousState = InitialPreviousState,
                 !.alertState = InitialAlertState,
                 !.resetTimer = "armed"]
  ELSE m

\* One limit check of checkDailyLimits: the flag after it, and whether the
\* alert is printed.
limitCheck(value, limit, flag) ==
  IF limitReached(value, limit)
  THEN [flag |-> TRUE, alert |-> ~flag]
  ELSE [flag |-> FALSE, alert |-> FALSE]

\* The ids added to longGameAlerted by the long-game check.
longGames(details, alerted) ==
  IF showGameByGameBreakdown
  THEN {details[i].id : i \in {j \in 1..Len(details) :
                                 /\ details[j].estimatedTimeSeconds >= maxTimePerGame
                                 /\ details[j].id \notin alerted}}
  ELSE {}

\* checkDailyLimits after both awaits: todaysGames is the result of the
\* first call of fetchTodaysGames, timeStats that of
\* calculateTotalTimePlayedToday.  The monitor's state after it, with the
\* alerts it printed.
checkDailyLimits(m, todaysGames, timeStats) ==
  LET currentStats ==
        [gameCount |-> Len(todaysGames),
         totalTimeSeconds |-> timeStats.totalTimeSeconds,
         lastGameId |-> IF todaysGames = <<>> THEN "null" ELSE todaysGames[1].id]
      games == limitCheck(currentStats.gameCount, maxGamesPerDay,
                          m.alertState.gameCountExceeded)
      time == limitCheck(currentStats.totalTimeSeconds, maxTimePerDay,
                         m.alertState.totalTimeExceeded)
  IN  [m EXCEPT
         !.alertState =
           [gameCountExceeded |-> games.flag,
            totalTimeExceeded |-> time.flag,
            longGameAlerted |->
              m.alertState.longGameAlerted
                \cup longGames(timeStats.gameTimeDetails, m.alertState.longGameAlerted)],
         !.alerts = (IF games.alert THEN {"games"} ELSE {})
                      \cup (IF time.alert THEN {"time"} ELSE {}),
         !.previousState = currentStats]

(***************************************************************************)
(* Inputs of the parser: messages are built from word fragments, so that   *)
(* keywords, keywords inside longer words, mixed case and near misses all  *)
(* occur.                                                                  *)
(***************************************************************************)
MessageWords ==
  { <<"b","l","o","c","k">>,
    <<"U","n">>,
    <<"S","u","s","p","e","n","d">>,
    <<"s","t","o","p">>,
    <<"D","i","s","a","b","l","e">>,
    <<"e","n","a","b","l","e">>,
    <<"S","T","A","R","T">>,
    <<" ","c","h","e","s","s">>,
    <<"A","l","l","o","w">>,
    <<"h","i"," ">> }

TagWords ==
  { <<"b","l","o","c","k">>,
    <<"S","U","S","P","E","N","D">>,
    <<"A","l","l","o","w">>,
    <<"u","n","b","l","o","c","k">>,
    <<"b","l","o","c","k","e","d">> }

Messages ==
  {Undefined, Null} \cup {Val(Concat(ws)) : ws \in SeqUpTo(MessageWords, MaxWords)}

TagLists == {Undefined, Null} \cup {Val(ts) : ts \in SeqUpTo(TagWords, MaxTags)}

\* No call of the parser is modelled.
ParseIdle == message = Undefined /\ tags = Undefined /\ parsed = "pending"

\* No call of a command builder is modelled.
ShellIdle ==
  /\ shFn = "none"
  /\ shText = <<>>
  /\ shSecret = <<>>
  /\ shPaths = <<<<>>, <<>>>>
  /\ shNames = <<>>
  /\ shOut = [done |-> FALSE, text |-> <<>>]

\* The policy files are as installed; no target, no monitor and no account
\* is modelled.
SideIdle ==
  /\ localFiles = InstalledFiles
  /\ target = NoTarget
  /\ monitor = NoMonitor
  /\ lichess = NoAccount

\* No process, run or request is modelled.
ProgramIdle ==
  /\ runs = <<>>
  /\ cfgSuspendChess = <<>>
  /\ child = <<>>
  /\ requests = <<>>
  /\ lastAction = [type |-> "null", status |-> "null", message |-> "null",
                   timestamp |-> "null"]
  /\ proc = NoProgram
  /\ hooks = <<>>
  /\ subscriber = NoSub

\* Nothing but a pure function is modelled.
OrchIdle == ProgramIdle /\ SideIdle

InitParse ==
  /\ message \in Messages
  /\ tags \in TagLists
  /\ parsed = "pending"
  /\ ShellIdle
  /\ OrchIdle

\* One call parseChessCommand(message, tags).
Parse ==
  /\ parsed = "pending"
  /\ parsed' = parseChessCommand(message, tags)
  /\ UNCHANGED <<message, tags, shellVars, orchVars, sideVars>>

NextParse == Parse

SpecParse == InitParse /\ [][NextParse]_vars

(***************************************************************************)
(* Properties of the parser.  The statements below describe the inputs     *)
(* directly, position by position, and do not use the operators of the     *)
(* parser.                                                                 *)
(***************************************************************************)
\* The text of an optional value, empty when it is absent.
TextOf(v) == IF v.kind = "value" THEN v.val ELSE <<>>

\* word occurs in s, letter case ignored.
ContainsWord(s, word) ==
  \E i \in 1..Len(s) :
    /\ i + Len(word) - 1 <= Len(s)
    /\ \A j \in 1..Len(word) : LowerChar(s[i + j - 1]) = word[j]

\* Some tag of the list is word, letter case ignored.
HasTag(list, word) ==
  \E i \in 1..Len(list) :
    /\ Len(list[i]) = Len(word)
    /\ \A j \in 1..Len(word) : LowerChar(list[i][j]) = word[j]

BlockTag == HasTag(TextOf(tags), kwBlock) \/ HasTag(TextOf(tags), kwSuspend)

AllowTag == HasTag(TextOf(tags), kwAllow) \/ HasTag(TextOf(tags), kwUnblock)

BlockText ==
  \/ ContainsWord(TextOf(message), kwBlock)
  \/ ContainsWord(TextOf(message), kwSuspend)
  \/ ContainsWord(TextOf(message), kwStopChess)
  \/ ContainsWord(TextOf(message), kwDisableChess)

AllowText ==
  \/ ContainsWord(TextOf(message), kwAllow)
  \/ ContainsWord(TextOf(message), kwUnblock)
  \/ ContainsWord(TextOf(message), kwEnableChess)
  \/ ContainsWord(TextOf(message), kwStartChess)

C2_TagsOverrideMessage ==
  parsed # "pending" =>
    /\ (BlockTag => parsed = "true")
    /\ (AllowTag /\ ~BlockTag => parsed = "false")

\* C2 witness: an Allow tag wins over a message that asks to block.
C2_Witness == parsed = "false" /\ AllowTag /\ BlockText /\ ~AllowText

C4_NoKeywordIsNull ==
  parsed # "pending" =>
    /\ parsed \in {"true", "false", "null"}
    /\ (TextOf(message) = <<>> /\ TextOf(tags) = <<>> => parsed = "null")
    /\ (~BlockTag /\ ~AllowTag /\ ~BlockText /\ ~AllowText => parsed = "null")

\* C4 witness: a null message with an undefined tag list has been parsed.
C4_Witness == parsed = "null" /\ message = Null /\ tags = Undefined

(***************************************************************************)
(* Inputs of the command builders and one call of each.                    *)
(***************************************************************************)
TextChars == {"'", "a", " ", "\\", "\n"}

Texts == SeqUpTo(TextChars, MaxLen)

Secrets == { <<>>, <<"p","w">>, <<"p","'","w">>, <<"'">> }

PathPairs ==
  { << <<"/","e","t","c","/","h","o","s","t","s">>,
       <<"/","e","t","c","/","h","o","s","t","s",".","b","a","c","k","u","p">> >>,
    << <<"/","c","u","s","t","o","m","/","h","o","s","t","s">>,
       <<"/","c","u","s","t","o","m","/","b","a","c","k","u","p">> >> }

BrowserNames ==
  { <<"f","i","r","e","f","o","x">>,
    <<"b","r","a","v","e">>,
    <<"G","o","o","g","l","e"," ","C","h","r","o","m","e">> }

NameLists == SeqUpTo(BrowserNames, MaxNames)

InitShell ==
  /\ ParseIdle
  /\ OrchIdle
  /\ shOut = [done |-> FALSE, text |-> <<>>]
  /\ \/ /\ shFn = "escapeForShell"
        /\ shText \in Texts
        /\ shSecret = <<>> /\ shPaths = <<<<>>, <<>>>> /\ shNames = <<>>
     \/ /\ shFn = "buildSudoCommand"
        /\ shText \in Texts
        /\ shSecret \in Secrets
        /\ shPaths = <<<<>>, <<>>>> /\ shNames = <<>>
     \/ /\ shFn = "buildHostsUploadCommand"
        /\ shText \in Texts
        /\ shPaths \in PathPairs
        /\ shSecret = <<>> /\ shNames = <<>>
     \/ /\ shFn = "buildBrowserKillCommand"
        /\ shNames \in NameLists
        /\ shText = <<>> /\ shSecret = <<>> /\ shPaths = <<<<>>, <<>>>>
     \/ /\ shFn = "buildCompleteUploadCommand"
        /\ shText \in Texts
        /\ shSecret \in Secrets
        /\ shPaths = <<REMOTE_HOSTS_PATH, REMOTE_HOSTS_BACKUP_PATH>>
        /\ shNames = <<>>

Returned(text) ==
  /\ ~shOut.done
  /\ shOut' = [done |-> TRUE, text |-> text]
  /\ UNCHANGED <<shFn, shText, shSecret, shPaths, shNames, parseVars, orchVars, sideVars>>

CallEscapeForShell ==
  /\ shFn = "escapeForShell"
  /\ Returned(escapeForShell(shText))

CallBuildSudoCommand ==
  /\ shFn = "buildSudoCommand"
  /\ Returned(buildSudoCommand(shSecret, shText))

CallBuildHostsUploadCommand ==
  /\ shFn = "buildHostsUploadCommand"
  /\ Returned(buildHostsUploadCommand(shPaths[1], shPaths[2], shText))

CallBuildBrowserKillCommand ==
  /\ shFn = "buildBrowserKillCommand"
  /\ Returned(buildBrowserKillCommand(shNames))

CallBuildCompleteUploadCommand ==
  /\ shFn = "buildCompleteUploadCommand"
  /\ Returned(buildCompleteUploadCommand(shSecret, shText))

NextShell ==
  \/ CallEscapeForShell
  \/ CallBuildSudoCommand
  \/ CallBuildHostsUploadCommand
  \/ CallBuildBrowserKillCommand
  \/ CallBuildCompleteUploadCommand

SpecShell == InitShell /\ [][NextShell]_vars

(***************************************************************************)
(* Properties of the command builders.  The expected texts are written     *)
(* character by character from the claimed format.                         *)
(***************************************************************************)
\* s with every single quote replaced by quote, backslash, quote, quote.
Quoted(s) ==
  Concat([i \in 1..Len(s) |-> IF s[i] = "'" THEN <<"'","\\","'","'">> ELSE <<s[i]>>])

\* The number of single quotes of s.
QuoteCount(s) == Cardinality({i \in 1..Len(s) : s[i] = "'"})

\* C5: the escaped text has four characters for every quote and the other
\* characters unchanged, and between single quotes the shell reads it back as
\* the one word s, with the words around it intact.
C5_EscapeRoundTrip ==
  (shFn = "escapeForShell" /\ shOut.done) =>
    /\ shOut.text = Quoted(shText)
    /\ Len(shOut.text) = Len(shText) + 3 * QuoteCount(shText)
    /\ ShellWords(<<"'">> \o shOut.text \o <<"'">>)
         = [closed |-> TRUE, words |-> <<shText>>]
    /\ ShellWords(<<"e"," ","'">> \o shOut.text \o <<"'"," ","z">>)
         = [closed |-> TRUE, words |-> <<<<"e">>, shText, <<"z">>>>]

\* C5 witness: a text with two quotes and a blank has been escaped.
C5_Witness ==
  /\ shFn = "escapeForShell" /\ shOut.done
  /\ shText = <<"'"," ","'">>

\* C6: the sudo command is the claimed text, and the shell reads the secret
\* and the inner command back as one word each.
C6_SudoCommandText ==
  (shFn = "buildSudoCommand" /\ shOut.done) =>
    /\ shOut.text
         = <<"e","c","h","o"," ","'">> \o Quoted(shSecret)
             \o <<"'"," ","|"," ","s","u","d","o"," ","-","S"," ","b","a","s","h"," ","-","c"," ","'">>
             \o Quoted(shText) \o <<"'">>
    /\ ShellWords(shOut.text)
         = [closed |-> TRUE,
            words |-> << <<"e","c","h","o">>, shSecret, <<"|">>, <<"s","u","d","o">>,
                         <<"-","S">>, <<"b","a","s","h">>, <<"-","c">>, shText >>]

\* C6 witness: a secret and an inner command that both hold a quote.
C6_Witness ==
  /\ shFn = "buildSudoCommand" /\ shOut.done
  /\ shSecret = <<"p","'","w">>
  /\ shText = <<"a","'","a">>

\* C7: the upload command is the claimed text: the copy to the backup path,
\* then &&, then the printf that overwrites the target.
C7_UploadCommandText ==
  (shFn = "buildHostsUploadCommand" /\ shOut.done) =>
    /\ shOut.text
         = <<"c","p"," ">> \o shPaths[1] \o <<" ">> \o shPaths[2]
             \o <<" ","&","&"," ","p","r","i","n","t","f"," ">>
             \o <<"'","%","s","\\","n","'"," ","'">> \o Quoted(shText)
             \o <<"'"," ",">"," ">> \o shPaths[1]
    /\ ShellWords(shOut.text)
         = [closed |-> TRUE,
            words |-> << <<"c","p">>, shPaths[1], shPaths[2], <<"&","&">>,
                         <<"p","r","i","n","t","f">>, <<"%","s","\\","n">>, shText,
                         <<">">>, shPaths[1] >>]

\* C7 witness: a two-line content with a quote has been built into a command.
C7_Witness ==
  /\ shFn = "buildHostsUploadCommand" /\ shOut.done
  /\ shText = <<"a","\n","'">>

\* The names of list in order, separated by single blanks.
SpaceJoined(list) ==
  Concat([i \in 1..Len(list) |-> IF i = 1 THEN list[i] ELSE <<" ">> \o list[i]])

\* C8: the kill command is one pkill whose single pattern is the names joined
\* by blanks.
C8_KillCommandText ==
  (shFn = "buildBrowserKillCommand" /\ shOut.done) =>
    /\ shOut.text
         = <<"p","k","i","l","l"," ","-","f"," ","'">> \o SpaceJoined(shNames)
             \o <<"'"," ","|","|"," ","t","r","u","e">>
    /\ ShellWords(shOut.text)
         = [closed |-> TRUE,
            words |-> << <<"p","k","i","l","l">>, <<"-","f">>, SpaceJoined(shNames),
                         <<"|","|">>, <<"t","r","u","e">> >>]

\* C8 witness: the command for two names, one of them with a blank.
C8_Witness ==
  /\ shFn = "buildBrowserKillCommand" /\ shOut.done
  /\ shNames = << <<"f","i","r","e","f","o","x">>,
                  <<"G","o","o","g","l","e"," ","C","h","r","o","m","e">> >>

(***************************************************************************)
(* The web app (chess-control-webapp/server.js) and the command-line      *)
(* processes it spawns.  Request q spawns process q, which makes one       *)
(* orchestrated run, runs[q], with its own SSH_CONFIG.                     *)
(***************************************************************************)
Requests == 1..MaxRequests

ActionTypes == {"block", "allow"}

\* The argument the server passes to suspend-chess.js for an action.
actionArg(type) == IF type = "block" THEN ARG_BLOCK ELSE ARG_ALLOW

runningMessage(type) ==
  IF type = "block" THEN "Blocking chess sites..." ELSE "Allowing chess sites..."

successMessage(type) ==
  IF type = "block" THEN "Chess sites blocked successfully!"
  ELSE "Chess sites allowed successfully!"

errorMessage(type) ==
  IF type = "block" THEN "Failed to block chess sites"
  ELSE "Failed to allow chess sites"

\* The values a handler assigns to lastAction.
\* Mutant: the handlers write the running status only.
actionRecord_Running(type, status) ==
  [type |-> type, status |-> "running", message |-> runningMessage(type),
   timestamp |-> "set"]

actionRecord(type, status) ==
  [type |-> type, status |-> status,
   message |-> (IF status = "running" THEN runningMessage(type)
                ELSE IF status = "success" THEN successMessage(type)
                ELSE errorMessage(type)),
   timestamp |-> "set"]

\* A command-line process: its state (none, spawned, running, exited,
\* spawnError, closed), its exit code, its arguments and whether it printed
\* the usage text to the error stream.
NoChild == [state |-> "none", code |-> 0, args |-> <<>>, usage |-> FALSE]

\* A request to POST /api/block or /api/allow: the phase of its handler, the
\* action, and the response: the number of calls of res.json, the HTTP
\* status, and the fields success, message, error and output of the body.
NoRequest ==
  [phase |-> "none", type |-> "block", http |-> 0, success |-> FALSE,
   sendCalls |-> 0, message |-> "none", errorField |-> FALSE, outputField |-> FALSE]

\* The exit codes of the upload command and of pkill that the remote end can
\* produce.
UploadExitCodes == {0, 1, 2}
PkillExitCodes == {0, 1, 2}

\* The ways a connection attempt fails: the error event (authentication,
\* network) and the timeout event.
ConnectFailures == {"authError", "networkError", "connectTimeout"}

\* pkill when nothing goes wrong: processes were killed, or none was found.
PkillFoundOrNot == {PKILL_SUCCESS_CODE, PKILL_NO_PROCESSES_CODE}

\* What the target and the local disk do to the runs of a program: the ways
\* a connection attempt fails, whether the policy file can be read, what the
\* upload command gives, whether the channel of a kill command holds, and the
\* exit codes of pkill.  The runs of the web app are given every outcome; the
\* runs of the listener and of the subscriber, of which whole histories are
\* kept in one process, fewer of each kind.
WebAppEnv ==
  [connectFailures |-> ConnectFailures,
   readable |-> BOOLEAN,
   uploadOutcomes |-> {ExitWith(code) : code \in UploadExitCodes} \cup {ChannelError},
   killChannelOk |-> BOOLEAN,
   pkillCodes |-> PkillFoundOrNot]

ListenerEnv ==
  [connectFailures |-> {"networkError"},
   readable |-> BOOLEAN,
   uploadOutcomes |-> {ExitWith(0), ExitWith(1), ChannelError},
   killChannelOk |-> BOOLEAN,
   pkillCodes |-> {PKILL_SUCCESS_CODE}]

SubscriberEnv ==
  [connectFailures |-> {"networkError"},
   readable |-> {TRUE},
   uploadOutcomes |-> {ExitWith(0), ExitWith(1)},
   killChannelOk |-> {TRUE},
   pkillCodes |-> {PKILL_SUCCESS_CODE}]

Init ==
  /\ ParseIdle
  /\ ShellIdle
  /\ SideIdle
  /\ runs = [q \in Requests |-> IdleRun]
  /\ cfgSuspendChess = [q \in Requests |-> DefaultSuspendChess]
  /\ child = [q \in Requests |-> NoChild]
  /\ requests = [q \in Requests |-> NoRequest]
  /\ lastAction = [type |-> "null", status |-> "null", message |-> "null",
                   timestamp |-> "null"]
  /\ proc = [program |-> "webapp", up |-> TRUE]
  /\ hooks = <<>>
  /\ subscriber = NoSub

\* Mutant: main has no catch block that exits with the error code.
mainExitCode_AlwaysSuccess(run) == EXIT_SUCCESS

\* Mutant: main exits with the error code on both ways out.
mainExitCode_AlwaysError(run) == EXIT_ERROR

\* main: process.exit(SUCCESS) after suspendChess returned, process.exit(ERROR)
\* in the catch block.
mainExitCode(run) == IF run.pc = "done" THEN EXIT_SUCCESS ELSE EXIT_ERROR

\* The end of a run: suspendChess restores the setting and returns or throws
\* to its caller.  In a command-line process main exits with code 0 or 1; in
\* the listener the webhook handler goes on after its await, and its promise
\* may reject, which ends the process or not, as the runtime is set up; in
\* the subscriber handleNotification returns and the loop over the lines goes
\* on.
RunEnds(q, run) ==
  LET ended == [runs EXCEPT ![q] = run]
      restored == [cfgSuspendChess EXCEPT ![ProcessOf(q)] = run.originalSetting]
  IN  CASE OwnProcessPerRun ->
             /\ runs' = ended
             /\ cfgSuspendChess' = restored
             /\ child' = [child EXCEPT ![q].state = "exited",
                                       ![q].code = mainExitCode(run)]
             /\ UNCHANGED frontVars
        [] proc.program = "listener" ->
             /\ runs' = ended
             /\ cfgSuspendChess' = restored
             /\ hooks' = [hooks EXCEPT ![q] = webhookAfterRun(@, run)]
             /\ \E exits \in IF webhookAfterRun(hooks[q], run).phase = "rejected"
                             THEN BOOLEAN ELSE {FALSE} :
                  proc' = [proc EXCEPT !.up = ~exits]
             /\ UNCHANGED <<child, subscriber>>
        [] proc.program = "subscriber" ->
             LET st == subscriberDispatch(
                         [runs |-> ended, cfg |-> restored,
                          sub |-> handleNotificationAfterRun(subscriber, run)])
             IN  /\ runs' = st.runs
                 /\ cfgSuspendChess' = st.cfg
                 /\ subscriber' = st.sub
                 /\ UNCHANGED <<child, proc, hooks>>

\* POST /api/block or /api/allow up to the await: lastAction is set to
\* running and the script is spawned.
Request(q, type) ==
  /\ requests[q].phase = "none"
  /\ \A k \in Requests : k < q => requests[k].phase # "none"
  /\ lastAction' = actionRecord(type, "running")
  /\ requests' = [requests EXCEPT ![q] =
                    [NoRequest EXCEPT !.phase = "running", !.type = type]]
  /\ child' = [child EXCEPT ![q] =
                 [NoChild EXCEPT !.state = "spawned", !.args = <<actionArg(type)>>]]
  /\ UNCHANGED <<runs, cfgSuspendChess, frontVars, parseVars, shellVars, sideVars>>

\* The handler's way out: the status it writes and the response it sends,
\* res.json({success: true, message, output}) after the await, or
\* res.status(500).json({success: false, message, error}) in the catch block.
Respond(q, ok) ==
  /\ lastAction' = actionRecord(requests[q].type, IF ok THEN "success" ELSE "error")
  /\ requests' = [requests EXCEPT
                    ![q].phase = "responded",
                    ![q].sendCalls = @ + 1,
                    ![q].http = IF ok THEN 200 ELSE 500,
                    ![q].success = ok,
                    ![q].message = IF ok THEN successMessage(requests[q].type)
                                   ELSE errorMessage(requests[q].type),
                    ![q].errorField = ~ok,
                    ![q].outputField = ok]

\* Mutant: GET /api/status answers with the initial object.
statusResponse_Initial(current) ==
  [type |-> "null", status |-> "null", message |-> "null", timestamp |-> "null"]

\* GET /api/status: res.json(lastAction).
statusResponse(current) == current

\* Mutant: the close handler resolves the promise whatever the exit code.
closeResolves_Always(code) == TRUE

\* child.on("close"): if (code === 0) resolve, else reject.
closeResolves(code) == code = 0

\* child.on("error"): the script could not be spawned.
SpawnError(q) ==
  /\ requests[q].phase = "running"
  /\ child[q].state = "spawned"
  /\ child' = [child EXCEPT ![q].state = "spawnError", ![q].code = -1]
  /\ Respond(q, FALSE)
  /\ UNCHANGED <<runs, cfgSuspendChess, frontVars, parseVars, shellVars, sideVars>>

\* main of the process up to the first await of suspendChess: for arguments
\* that give no mode, displayUsage and process.exit(ERROR).
ChildMain(q) ==
  /\ child[q].state = "spawned"
  /\ LET shouldBlock == parseCommandLineArgs(child[q].args, cfgSuspendChess[q])
     IN  IF shouldBlock = "null"
         THEN /\ child' = [child EXCEPT ![q].state = "exited",
                                        ![q].code = EXIT_ERROR,
                                        ![q].usage = TRUE]
              /\ UNCHANGED <<runs, cfgSuspendChess>>
         ELSE /\ child' = [child EXCEPT ![q].state = "running"]
              /\ runs' = [runs EXCEPT ![q] =
                            suspendChessEnter(@, shouldBlock = "true", cfgSuspendChess[q])]
              /\ cfgSuspendChess' =
                   [cfgSuspendChess EXCEPT ![q] = (shouldBlock = "true")]
  /\ UNCHANGED <<requests, lastAction, frontVars, parseVars, shellVars, sideVars>>

\* The interval of startTimer fires.  When the wait is over the handler is
\* removed and executeRemoteCommands creates the client and starts to connect.
TimerTick(q) ==
  /\ proc.up
  /\ runs[q].pc = "delaying"
  /\ runs' = [runs EXCEPT ![q] =
                IF timerCompleted(@)
                THEN [@ EXCEPT !.elapsedSeconds = timerElapsed(runs[q]),
                               !.sigintHandler = FALSE, !.pc = "connecting"]
                ELSE [@ EXCEPT !.elapsedSeconds = timerElapsed(runs[q])]]
  /\ UNCHANGED <<cfgSuspendChess, child, requests, lastAction, frontVars,
                 parseVars, shellVars, sideVars>>

\* SIGINT while the handler of startTimer is installed: process.exit(0).
Sigint(q) ==
  /\ proc.up
  /\ runs[q].pc = "delaying"
  /\ runs[q].sigintHandler
  /\ runs' = [runs EXCEPT ![q].pc = "cancelled"]
  /\ IF OwnProcessPerRun
     THEN /\ child' = [child EXCEPT ![q].state = "exited", ![q].code = EXIT_SUCCESS]
          /\ UNCHANGED proc
     ELSE /\ proc' = [proc EXCEPT !.up = FALSE]
          /\ UNCHANGED child
  /\ UNCHANGED <<cfgSuspendChess, requests, lastAction, hooks, subscriber,
                 parseVars, shellVars, sideVars>>

\* The connection attempt fails: the error or the timeout event.
ConnectFails(q, why) ==
  /\ proc.up
  /\ runs[q].pc = "connecting"
  /\ RunEnds(q, executeRemoteCommandsExit(runs[q], [kind |-> why, code |-> 0]))
  /\ UNCHANGED <<requests, lastAction, parseVars, shellVars, sideVars>>

\* The ready event: the policy file of the current setting is read and the
\* upload command is sent; when the file cannot be read the run fails.
ConnectReady(q, readable) ==
  /\ proc.up
  /\ runs[q].pc = "connecting"
  /\ LET ready == [runs[q] EXCEPT !.connects = @ + 1]
         read == readLocalHostsFile(localFiles, cfgSuspendChess[ProcessOf(q)], readable)
     IN  IF read.ok
         THEN /\ runs' = [runs EXCEPT ![q] =
                            [sendCommand(ready,
                               buildCompleteUploadCommand(ConfiguredPassword, read.text))
                             EXCEPT !.pc = "uploading"]]
              /\ UNCHANGED <<cfgSuspendChess, child, frontVars>>
         ELSE RunEnds(q, executeRemoteCommandsExit(ready, [kind |-> "read", code |-> 0]))
  /\ UNCHANGED <<requests, lastAction, parseVars, shellVars, sideVars>>

\* The upload command ends: a non-zero code fails the run, code 0 starts the
\* kill of the first configured browser.
UploadResult(q, outcome) ==
  /\ proc.up
  /\ runs[q].pc = "uploading"
  /\ LET got == gotResult(runs[q], outcome)
     IN  IF outcome.kind = "channelError"
         THEN RunEnds(q, executeRemoteCommandsExit(got, [kind |-> "channel", code |-> 0]))
         ELSE IF uploadFailed(outcome.code)
         THEN RunEnds(q, executeRemoteCommandsExit(got,
                           [kind |-> "upload", code |-> outcome.code]))
         ELSE /\ runs' = [runs EXCEPT ![q] =
                            [sendCommand(got, killBrowserProcessCommand(BROWSERS_TO_KILL[1]))
                             EXCEPT !.pc = "killing", !.killIndex = 1]]
              /\ UNCHANGED <<cfgSuspendChess, child, frontVars>>
  /\ UNCHANGED <<requests, lastAction, parseVars, shellVars, sideVars>>

\* A kill command ends, pkill itself having exited with rawCode: whatever the
\* code of the command the next browser is killed, and after the last one the
\* run is done; an error of the channel is rethrown.
KillResult(q, channelOk, rawCode) ==
  /\ proc.up
  /\ runs[q].pc = "killing"
  /\ LET command == runs[q].sent[Len(runs[q].sent)]
         outcome == IF channelOk THEN ExitWith(shellExitCode(command, rawCode))
                    ELSE ChannelError
         got == IF outcome.kind = "channelError"
                THEN gotResult(runs[q], outcome)
                ELSE [gotResult(runs[q], outcome) EXCEPT
                        !.pkillCodes = Append(@, rawCode),
                        !.killLog = Append(@, killBrowserProcessLog(outcome.code))]
         next == runs[q].killIndex + 1
     IN  IF outcome.kind = "channelError"
         THEN RunEnds(q, executeRemoteCommandsExit(got, [kind |-> "channel", code |-> 0]))
         ELSE IF next <= Len(BROWSERS_TO_KILL)
         THEN /\ runs' = [runs EXCEPT ![q] =
                            [sendCommand(got, killBrowserProcessCommand(BROWSERS_TO_KILL[next]))
                             EXCEPT !.killIndex = next]]
              /\ UNCHANGED <<cfgSuspendChess, child, frontVars>>
         ELSE RunEnds(q, executeRemoteCommandsExit(got, NoError))
  /\ UNCHANGED <<requests, lastAction, parseVars, shellVars, sideVars>>

\* child.on("close"): the promise settles and the handler writes the final
\* status and responds.  When the close event follows the error event the
\* promise is settled already, and the call of reject does nothing.
ChildClose(q) ==
  /\ child[q].state \in {"exited", "spawnError"}
  /\ child' = [child EXCEPT ![q].state = "closed"]
  /\ IF requests[q].phase = "running"
     THEN Respond(q, closeResolves(child[q].code))
     ELSE UNCHANGED <<requests, lastAction>>
  /\ UNCHANGED <<runs, cfgSuspendChess, frontVars, parseVars, shellVars, sideVars>>

\* A step of the run q, in whatever program it was started, on a target that
\* behaves as env says.
RunStep(q, env) ==
  \/ TimerTick(q)
  \/ Sigint(q)
  \/ \E why \in env.connectFailures : ConnectFails(q, why)
  \/ \E readable \in env.readable : ConnectReady(q, readable)
  \/ \E outcome \in env.uploadOutcomes : UploadResult(q, outcome)
  \/ \E channelOk \in env.killChannelOk, rawCode \in env.pkillCodes :
       KillResult(q, channelOk, rawCode)

Next ==
  \E q \in Requests :
    \/ \E type \in ActionTypes : Request(q, type)
    \/ SpawnError(q)
    \/ ChildMain(q)
    \/ RunStep(q, WebAppEnv)
    \/ ChildClose(q)

Spec == Init /\ [][Next]_vars

(***************************************************************************)
(* suspend-chess.js started from the command line: process 1 makes the run *)
(* runs[1].                                                                *)
(***************************************************************************)
CliProcess == 1

\* process.argv.slice(2): no argument, the two modes in three spellings, a
\* word that only contains a mode, the empty string, and two arguments.
CliArgs ==
  { <<>>,
    <<ARG_BLOCK>>,
    << <<"B","l","O","c","K">> >>,
    <<ARG_ALLOW>>,
    << <<"A","L","L","O","W">> >>,
    << <<"u","n","b","l","o","c","k">> >>,
    << <<>> >>,
    <<ARG_BLOCK, ARG_ALLOW>> }

\* A target that gives every outcome, with every exit code of pkill.
CliEnv ==
  [connectFailures |-> ConnectFailures,
   readable |-> BOOLEAN,
   uploadOutcomes |-> {ExitWith(code) : code \in UploadExitCodes} \cup {ChannelError},
   killChannelOk |-> BOOLEAN,
   pkillCodes |-> PkillExitCodes]

InitCli ==
  /\ ParseIdle
  /\ ShellIdle
  /\ SideIdle
  /\ runs = [q \in Requests |-> IdleRun]
  /\ cfgSuspendChess = [q \in Requests |-> DefaultSuspendChess]
  /\ child = [q \in Requests |-> NoChild]
  /\ requests = <<>>
  /\ lastAction = [type |-> "null", status |-> "null", message |-> "null",
                   timestamp |-> "null"]
  /\ proc = [program |-> "cli", up |-> TRUE]
  /\ hooks = <<>>
  /\ subscriber = NoSub

\* The texts a policy file can be given by an edit: the installed one, and
\* another (for the allowed variant, the empty file).
FileTexts(fileName) ==
  {LocalFileContent(fileName),
   IF fileName = "hostsuncommented" THEN <<"0"," ","c","h","\n">> ELSE <<>>}

\* Somebody edits a policy file of the config directory.
FileEdited(fileName, text) ==
  /\ localFiles[fileName] # text
  /\ localFiles' = [localFiles EXCEPT ![fileName] = text]
  /\ UNCHANGED <<parseVars, shellVars, orchVars, target, monitor, lichess>>

\* node suspend-chess.js <args>: the module is loaded and calls main.
CliStart(q, args) ==
  /\ child[q].state = "none"
  /\ child' = [child EXCEPT ![q] = [NoChild EXCEPT !.state = "spawned", !.args = args]]
  /\ UNCHANGED <<runs, cfgSuspendChess, requests, lastAction, frontVars,
                 parseVars, shellVars, sideVars>>

NextCli ==
  \/ \E fileName \in DOMAIN localFiles :
       \E text \in FileTexts(fileName) : FileEdited(fileName, text)
  \/ \E args \in CliArgs : CliStart(CliProcess, args)
  \/ ChildMain(CliProcess)
  \/ RunStep(CliProcess, CliEnv)

SpecCli == InitCli /\ [][NextCli]_vars

(***************************************************************************)
(* The webhook listener (ntfy/ntfy-listener.js): one process, whose        *)
(* handler of POST /ntfy-webhook calls suspendChess itself.  Request q     *)
(* makes the run runs[q]; all runs use the SSH_CONFIG of the process.      *)
(***************************************************************************)
\* The JSON bodies that are posted: the two of the end-to-end scenarios, a
\* body whose tag says allow, and an empty body.
HookBodies ==
  { [message |-> Val(<<"h","e","l","l","o">>), tags |-> Val(<<>>)],
    [message |-> Val(<<"b","l","o","c","k"," ","t","h","i","s"," ","n","o","w">>),
     tags |-> Val(<<>>)],
    [message |-> Val(<<"h","i">>), tags |-> Val(<< <<"A","l","l","o","w">> >>)],
    [message |-> Undefined, tags |-> Undefined] }

InitHook ==
  /\ ParseIdle
  /\ ShellIdle
  /\ SideIdle
  /\ runs = [q \in Requests |-> IdleRun]
  /\ cfgSuspendChess = <<DefaultSuspendChess>>
  /\ child = <<>>
  /\ requests = <<>>
  /\ lastAction = [type |-> "null", status |-> "null", message |-> "null",
                   timestamp |-> "null"]
  /\ proc = [program |-> "listener", up |-> TRUE]
  /\ hooks = [q \in Requests |-> NoHook]
  /\ subscriber = NoSub

\* POST /ntfy-webhook up to the first await: the body is parsed, the response
\* is sent and, for a command, suspendChess is called and runs up to the
\* await of its timer.
HookRequest(q, body) ==
  /\ proc.up
  /\ hooks[q].phase = "none"
  /\ \A k \in Requests : k < q => hooks[k].phase # "none"
  /\ LET shouldBlock == parseChessCommand(body.message, body.tags)
         received == [hooks[q] EXCEPT !.message = body.message,
                                      !.tags = body.tags,
                                      !.shouldBlock = shouldBlock]
     IN  IF webhookIgnores(shouldBlock)
         THEN /\ hooks' = [hooks EXCEPT ![q] =
                             [resJson(received, ignoredResponse) EXCEPT
                                !.phase = "ignored"]]
              /\ UNCHANGED <<runs, cfgSuspendChess>>
         ELSE /\ hooks' = [hooks EXCEPT ![q] = webhookAccept(received, shouldBlock)]
              /\ runs' = [runs EXCEPT ![q] =
                            suspendChessEnter(@, shouldBlock = "true",
                                              cfgSuspendChess[1])]
              /\ cfgSuspendChess' = [cfgSuspendChess EXCEPT ![1] = (shouldBlock = "true")]
  /\ UNCHANGED <<child, requests, lastAction, proc, subscriber, parseVars, shellVars, sideVars>>

NextHook ==
  \E q \in Requests :
    \/ \E body \in HookBodies : HookRequest(q, body)
    \/ RunStep(q, ListenerEnv)

SpecHook == InitHook /\ [][NextHook]_vars

(***************************************************************************)
(* The subscriber: one process, whose read loop calls handleNotification   *)
(* and waits for it, line by line.  The n-th command makes the run         *)
(* runs[n].  A chunk is given as the lines it completes.                   *)
(***************************************************************************)
Chunks == SeqUpTo(SubLines, MaxChunk)

\* The lines that start a run, and how many of them a chunk holds.
CommandLines ==
  {line \in SubLines :
     /\ line.json
     /\ line.event # "keepalive"
     /\ notificationCommand[line] # "null"}

CommandCount(lines) == Cardinality({i \in 1..Len(lines) : lines[i] \in CommandLines})

InitSub ==
  /\ ParseIdle
  /\ ShellIdle
  /\ SideIdle
  /\ runs = [q \in Requests |-> IdleRun]
  /\ cfgSuspendChess = <<DefaultSuspendChess>>
  /\ child = <<>>
  /\ requests = <<>>
  /\ lastAction = [type |-> "null", status |-> "null", message |-> "null",
                   timestamp |-> "null"]
  /\ proc = [program |-> "subscriber", up |-> TRUE]
  /\ hooks = <<>>
  /\ subscriber = subscriberFetch(NoSub, "start")

\* fetch settles: with an OK response the first read is started; a response
\* that is not OK, or a rejection, goes to the catch block.
FetchResult(outcome) ==
  /\ proc.up
  /\ subscriber.pc = "fetching"
  /\ subscriber' = IF outcome = "ok" THEN [subscriber EXCEPT !.pc = "reading"]
                   ELSE subscriberCatch(subscriber, outcome)
  /\ UNCHANGED <<runs, cfgSuspendChess, child, requests, lastAction, proc, hooks,
                 parseVars, shellVars, sideVars>>

\* reader.read() gives a chunk: its lines are dispatched one after the other.
ReadChunk(lines) ==
  /\ proc.up
  /\ subscriber.pc = "reading"
  /\ subscriber.started + CommandCount(lines) <= MaxRequests
  /\ LET st == subscriberDispatch([runs |-> runs, cfg |-> cfgSuspendChess,
                                   sub |-> [subscriber EXCEPT !.chunk = lines,
                                                              !.lines = lines,
                                                              !.log = <<>>]])
     IN  /\ runs' = st.runs
         /\ cfgSuspendChess' = st.cfg
         /\ subscriber' = st.sub
  /\ UNCHANGED <<child, requests, lastAction, proc, hooks, parseVars, shellVars, sideVars>>

\* reader.read() gives done: the inner loop is left by break, the try block
\* ends, and the outer loop calls fetch again.
ReadDone ==
  /\ proc.up
  /\ subscriber.pc = "reading"
  /\ subscriber.opens < MaxOpens
  /\ subscriber' = subscriberFetch([subscriber EXCEPT !.endedHow = "done"],
                                   "atOnce")
  /\ UNCHANGED <<runs, cfgSuspendChess, child, requests, lastAction, proc, hooks,
                 parseVars, shellVars, sideVars>>

\* reader.read() rejects: the catch block.
ReadError ==
  /\ proc.up
  /\ subscriber.pc = "reading"
  /\ subscriber' = subscriberCatch(subscriber, "readError")
  /\ UNCHANGED <<runs, cfgSuspendChess, child, requests, lastAction, proc, hooks,
                 parseVars, shellVars, sideVars>>

\* The reconnect timeout fires: the outer loop calls fetch again.
ReconnectTimer ==
  /\ proc.up
  /\ subscriber.pc = "waiting"
  /\ subscriber.opens < MaxOpens
  /\ subscriber' = subscriberFetch(subscriber, "afterDelay")
  /\ UNCHANGED <<runs, cfgSuspendChess, child, requests, lastAction, proc, hooks,
                 parseVars, shellVars, sideVars>>

\* SIGINT or SIGTERM: the handlers of the subscriber exit the process, and
\* nothing of subscribeToNtfy is left (the count of the runs that were
\* started is kept, as the runs are).
SubShutdown ==
  /\ proc.up
  /\ proc' = [proc EXCEPT !.up = FALSE]
  /\ subscriber' = [NoSub EXCEPT !.started = subscriber.started]
  /\ UNCHANGED <<runs, cfgSuspendChess, child, requests, lastAction, hooks,
                 parseVars, shellVars, sideVars>>

NextSub ==
  \/ \E outcome \in {"ok", "httpError", "networkError"} : FetchResult(outcome)
  \/ \E lines \in Chunks : ReadChunk(lines)
  \/ ReadDone
  \/ ReadError
  \/ ReconnectTimer
  \/ SubShutdown
  \/ \E q \in Requests : RunStep(q, SubscriberEnv)

SpecSub == InitSub /\ [][NextSub]_vars

(***************************************************************************)
(* ntfy-subscriber.js: the framing of the stream into lines.  The stream   *)
(* is a text that the reader hands over in chunks, cut anywhere.           *)
(***************************************************************************)
MaxStream == 5

StreamChars == {"x", " ", "\n"}

\* The texts a connection can carry.
Streams == UNION {[1..n -> StreamChars] : n \in 0..MaxStream}

\* String.prototype.split("\n"): the pieces between the newlines, one more
\* than there are newlines.
RECURSIVE splitNewline(_, _)
splitNewline(text, piece) ==
  IF text = <<>> THEN <<piece>>
  ELSE IF Head(text) = "\n" THEN <<piece>> \o splitNewline(Tail(text), <<>>)
  ELSE splitNewline(Tail(text), Append(piece, Head(text)))

\* line.trim() is not the empty string.
trimmedNonEmpty(line) == \E i \in 1..Len(line) : line[i] \notin {" ", "\n"}

\* Mutant: the last piece is handled like the others and nothing is kept.
readChunk_NoTail(buffer, value) ==
  [lines |-> SelectSeq(splitNewline(buffer \o value, <<>>), trimmedNonEmpty),
   buffer |-> <<>>]

\* The body of the read loop for a chunk: the chunk is appended to the
\* buffer, the buffer is split, the last piece is kept as the new buffer and
\* the other pieces that are not blank are handled, in order.
readChunk(buffer, value) ==
  LET pieces == splitNewline(buffer \o value, <<>>)
  IN  [lines |-> SelectSeq(SubSeq(pieces, 1, Len(pieces) - 1), trimmedNonEmpty),
       buffer |-> pieces[Len(pieces)]]

InitFrame ==
  /\ ParseIdle
  /\ ShellIdle
  /\ SideIdle
  /\ runs = <<>>
  /\ cfgSuspendChess = <<>>
  /\ child = <<>>
  /\ requests = <<>>
  /\ lastAction = [type |-> "null", status |-> "null", message |-> "null",
                   timestamp |-> "null"]
  /\ proc = [program |-> "subscriber", up |-> TRUE]
  /\ hooks = <<>>
  /\ subscriber \in [pc : {"reading"}, stream : Streams, pos : {0}, cuts : {{}},
                     buffer : {<<>>}, handled : {<<>>}]

\* reader.read() gives the next k characters of the stream.
FrameChunk(k) ==
  LET s == subscriber
      framed == readChunk(s.buffer, SubSeq(s.stream, s.pos + 1, s.pos + k))
  IN  /\ s.pc = "reading"
      /\ s.pos + k <= Len(s.stream)
      /\ subscriber' = [s EXCEPT !.pos = @ + k,
                                 !.cuts = @ \cup {s.pos + k},
                                 !.buffer = framed.buffer,
                                 !.handled = @ \o framed.lines]
      /\ UNCHANGED <<runs, cfgSuspendChess, child, requests, lastAction, proc, hooks,
                     parseVars, shellVars, sideVars>>

\* reader.read() gives done: the inner loop is left and the buffer, a local
\* of the try block, is gone.
FrameDone ==
  /\ subscriber.pc = "reading"
  /\ subscriber.pos = Len(subscriber.stream)
  /\ subscriber' = [subscriber EXCEPT !.pc = "ended", !.buffer = <<>>]
  /\ UNCHANGED <<runs, cfgSuspendChess, child, requests, lastAction, proc, hooks,
                 parseVars, shellVars, sideVars>>

NextFrame ==
  \/ \E k \in 1..MaxStream : FrameChunk(k)
  \/ FrameDone

SpecFrame == InitFrame /\ [][NextFrame]_vars

(***************************************************************************)
(* The target host under upload commands.  Every run has a session of its  *)
(* own (conn.exec in executeSSHCommand); the sessions share the files of   *)
(* the target, and the commands of their and-lists interleave freely.      *)
(***************************************************************************)
InitTarget ==
  /\ ParseIdle
  /\ ShellIdle
  /\ ProgramIdle
  /\ localFiles = InstalledFiles
  /\ target = [files |-> TargetFiles, shells |-> [q \in Requests |-> NoShell]]
  /\ monitor = NoMonitor
  /\ lichess = NoAccount

\* uploadHostsFile of run q: the command built for the policy text is given
\* to the session.
TargetExec(q, isBlocking) ==
  LET hostsContent == readLocalHostsFile(localFiles, isBlocking, TRUE).text
      command == buildCompleteUploadCommand(ConfiguredPassword, hostsContent)
  IN  /\ target.shells[q].pc = "none"
      /\ target' = [target EXCEPT
                      !.shells[q] = [NoShell EXCEPT !.pc = "running",
                                                    !.todo = targetScript(command)]]
      /\ UNCHANGED <<parseVars, shellVars, orchVars, localFiles, monitor, lichess>>

\* The next command of session q's and-list succeeds.  It is recorded what
\* the command did: the copy, the overwrite of the hosts file and the text it
\* replaced, and, for the other sessions, an overwrite that fell between
\* their copy and their own overwrite.
TargetCommand(q) ==
  LET sh == target.shells[q]
      cmd == Head(sh.todo)
      overwrites == isPrintfTo(cmd) /\ cmd[5] = REMOTE_HOSTS_PATH
  IN  /\ sh.pc = "running"
      /\ target' =
           [files |-> filesAfter(target.files, cmd),
            shells |->
              [r \in Requests |->
                 IF r = q
                 THEN [shellAfter(sh, TRUE) EXCEPT
                         !.copied = @ \/ isCp(cmd),
                         !.overwrote = @ \/ overwrites,
                         !.replaced = IF overwrites
                                      THEN target.files[REMOTE_HOSTS_PATH] ELSE @]
                 ELSE [target.shells[r] EXCEPT
                         !.disturbed =
                           @ \/ (/\ overwrites
                                 /\ target.shells[r].pc = "running"
                                 /\ target.shells[r].copied
                                 /\ ~target.shells[r].overwrote)]]]
      /\ UNCHANGED <<parseVars, shellVars, orchVars, localFiles, monitor, lichess>>

\* The cp of session q fails (the source cannot be read, the destination
\* cannot be written): no file changes and the and-list ends.
TargetCommandFails(q) ==
  LET sh == target.shells[q]
  IN  /\ sh.pc = "running"
      /\ isCp(Head(sh.todo))
      /\ target' = [target EXCEPT !.shells[q] = shellAfter(sh, FALSE)]
      /\ UNCHANGED <<parseVars, shellVars, orchVars, localFiles, monitor, lichess>>

\* The stream of session q closes with the exit code; the run ends the
\* connection.
TargetClose(q) ==
  /\ target.shells[q].pc = "exited"
  /\ target' = [target EXCEPT !.shells[q] = NoShell]
  /\ UNCHANGED <<parseVars, shellVars, orchVars, localFiles, monitor, lichess>>

NextTarget ==
  \/ \E q \in Requests, isBlocking \in BOOLEAN : TargetExec(q, isBlocking)
  \/ \E q \in Requests : TargetCommand(q)
  \/ \E q \in Requests : TargetCommandFails(q)
  \/ \E q \in Requests : TargetClose(q)

SpecTarget == InitTarget /\ [][NextTarget]_vars

(***************************************************************************)
(* lichess-monitor.js: the polling loop, and the account it polls.  A poll *)
(* is one call of checkDailyLimits; it waits twice, for fetchTodaysGames   *)
(* and for calculateTotalTimePlayedToday, which fetches the games again.   *)
(* observed records, for each of the two requests of the last poll,        *)
(* whether the account's value was at or over the limit when the request   *)
(* was answered, and whether the request failed.                           *)
(***************************************************************************)
MaxGamesToday == 11

\* The numbers of games of today at which the account is looked at: none,
\* few, and around the limit.
PlayedCounts ==
  {0, 1, 3, maxGamesPerDay - 1} \cup (maxGamesPerDay .. MaxGamesToday)

NothingObserved ==
  [gamesOver |-> FALSE, timeOver |-> FALSE, gamesFailed |-> FALSE, timeFailed |-> FALSE]

InitMonitor ==
  /\ ParseIdle
  /\ ShellIdle
  /\ ProgramIdle
  /\ localFiles = InstalledFiles
  /\ target = NoTarget
  /\ monitor = [pc |-> "loaded",
                previousState |-> InitialPreviousState,
                alertState |-> InitialAlertState,
                alerts |-> {},
                todaysGames |-> <<>>,
                observed |-> NothingObserved,
                resetTimer |-> "none"]
  /\ lichess \in [day : Days, played : {0}]

\* startMonitoring: the initial check is called.  The three calls before it,
\* resetDailyTracking among them, are commented out, so no timeout is set.
StartMonitoring ==
  /\ monitor.pc = "loaded"
  /\ monitor' = [monitor EXCEPT !.pc = "fetchingGames"]
  /\ UNCHANGED <<parseVars, shellVars, orchVars, localFiles, target, lichess>>

\* The callback of setInterval calls checkDailyLimits.  (A tick that falls
\* into a poll that is still waiting is left out: the interval is minutes.)
IntervalTick ==
  /\ monitor.pc = "waiting"
  /\ monitor' = [monitor EXCEPT !.pc = "fetchingGames"]
  /\ UNCHANGED <<parseVars, shellVars, orchVars, localFiles, target, lichess>>

\* The first await of checkDailyLimits resolves.
GamesFetched(ok) ==
  /\ monitor.pc = "fetchingGames"
  /\ monitor' = [monitor EXCEPT
                   !.pc = "fetchingTimes",
                   !.todaysGames = fetchTodaysGames(lichess, ok),
                   !.observed = [NothingObserved EXCEPT
                                   !.gamesOver = lichess.played >= maxGamesPerDay,
                                   !.gamesFailed = ~ok]]
  /\ UNCHANGED <<parseVars, shellVars, orchVars, localFiles, target, lichess>>

\* The second await resolves and checkDailyLimits runs to its end.
TimesFetched(ok) ==
  LET timeStats == calculateTotalTimePlayedToday(fetchTodaysGames(lichess, ok))
      after == checkDailyLimits(monitor, monitor.todaysGames, timeStats)
  IN  /\ monitor.pc = "fetchingTimes"
      /\ monitor' = [after EXCEPT
                       !.pc = "waiting",
                       !.todaysGames = <<>>,
                       !.observed.timeOver =
                         calculateTotalTimePlayedToday(
                           fetchTodaysGames(lichess, TRUE)).totalTimeSeconds
                             >= maxTimePerDay,
                       !.observed.timeFailed = ~ok]
      /\ UNCHANGED <<parseVars, shellVars, orchVars, localFiles, target, lichess>>

\* The account finishes games: it has played n today.
GamesPlayed(n) ==
  /\ lichess.played < n
  /\ lichess' = [lichess EXCEPT !.played = n]
  /\ UNCHANGED <<parseVars, shellVars, orchVars, localFiles, target, monitor>>

\* Local midnight passes: no game of the new day has been played, and the
\* timeout of resetDailyTracking, if there is one, fires.
NewDay(day) ==
  /\ lichess.played > 0
  /\ lichess' = [day |-> day, played |-> 0]
  /\ monitor' = resetDailyTracking(monitor)
  /\ UNCHANGED <<parseVars, shellVars, orchVars, localFiles, target>>

NextMonitor ==
  \/ StartMonitoring
  \/ IntervalTick
  \/ \E ok \in BOOLEAN : GamesFetched(ok)
  \/ \E ok \in BOOLEAN : TimesFetched(ok)
  \/ \E n \in PlayedCounts : GamesPlayed(n)
  \/ \E day \in Days : NewDay(day)

SpecMonitor == InitMonitor /\ [][NextMonitor]_vars

\* C39: the complete upload command, split by the login shell and its
\* bash -c argument split again by bash, gives printf the policy text as it
\* was, in one argument, whatever quotes, backslashes, blanks or newlines the
\* text holds; the words around it are those of the fixed command.
C39_NestedQuotingIdentity ==
  (shFn = "buildCompleteUploadCommand" /\ shOut.done) =>
    LET outer == ShellWords(shOut.text)
        script == bashScript(outer.words)
        inner == ShellWords(script)
    IN  /\ outer.closed
        /\ outer.words =
             << <<"e","c","h","o">>, shSecret, <<"|">>, <<"s","u","d","o">>,
                <<"-","S">>, <<"b","a","s","h">>, <<"-","c">>, script >>
        /\ inner.closed
        /\ inner.words =
             << <<"c","p">>, REMOTE_HOSTS_PATH, REMOTE_HOSTS_BACKUP_PATH, <<"&","&">>,
                <<"p","r","i","n","t","f">>, <<"%","s","\\","n">>, shText,
                <<">">>, REMOTE_HOSTS_PATH >>

\* C39 witness: the command for a text of a quote, a blank and a backslash,
\* with a password that holds a quote, has been built.
C39_Witness ==
  /\ shFn = "buildCompleteUploadCommand" /\ shOut.done
  /\ shText = <<"'", " ", "\\">>
  /\ shSecret = <<"p","'","w">>

(***************************************************************************)
(* Properties of the orchestrated run.                                     *)
(***************************************************************************)
IsKillCommand(command) ==
  Len(command) >= 5 /\ SubSeq(command, 1, 5) = <<"p","k","i","l","l">>

\* The first command of the run of q, the upload, gave a non-zero exit code.
UploadExitedNonZero(q) ==
  /\ Len(runs[q].results) >= 1
  /\ runs[q].results[1].kind = "exit"
  /\ runs[q].results[1].code # 0

\* C9 (state part): after a non-zero exit code of the upload the run has
\* failed with the upload error, the upload is the only command that was
\* executed, conn.end() has been called, the process has exited with code 1
\* and the response, once sent, is the 500 one.
C9_AfterUploadFailure ==
  \A q \in Requests :
    UploadExitedNonZero(q) =>
      /\ runs[q].pc = "failed"
      /\ runs[q].error = [kind |-> "upload", code |-> runs[q].results[1].code]
      /\ Len(runs[q].sent) = 1
      /\ ~IsKillCommand(runs[q].sent[1])
      /\ runs[q].ends = 1
      /\ child[q].code = EXIT_ERROR
      /\ child[q].state \in {"exited", "closed"}
      /\ (requests[q].phase = "responded" =>
            requests[q].http = 500 /\ ~requests[q].success)

\* C9 (step part): the step in which the handler of such a request finishes
\* leaves lastAction at error for the action type of the request.
C9_HandlerWritesError ==
  \A q \in Requests :
    (UploadExitedNonZero(q) /\ requests[q].phase = "running"
       /\ requests'[q].phase = "responded")
      => lastAction' = [type |-> requests[q].type, status |-> "error",
                        message |-> errorMessage(requests[q].type),
                        timestamp |-> "set"]

\* C9: a non-zero exit code of the upload fails the run with the upload error,
\* no kill command follows, the session is released and the web app's
\* last-action status is set to error.
C9_UploadFailureFailsRun == []C9_AfterUploadFailure /\ [][C9_HandlerWritesError]_vars

\* C9 witness: the upload of a block request exited with code 2 and the
\* request has been answered.
C9_Witness ==
  \E q \in Requests :
    /\ UploadExitedNonZero(q)
    /\ runs[q].results[1].code = 2
    /\ requests[q].type = "block"
    /\ requests[q].phase = "responded"
    /\ lastAction.status = "error"

\* C10: conn.end() is called exactly once in every run that connected, on
\* every way out, never twice, and never while the run still uses the
\* connection.
C10_ReleasedExactlyOnce ==
  \A q \in Requests :
    /\ runs[q].connects <= 1
    /\ runs[q].ends <= 1
    /\ (runs[q].pc \in {"done", "failed"} /\ runs[q].connects = 1 => runs[q].ends = 1)
    /\ (runs[q].pc \in {"connecting", "uploading", "killing"} => runs[q].ends = 0)
    /\ (runs[q].ends = 1 => runs[q].pc \in {"done", "failed"})

\* C10 witness: one run failed to read the policy file after it had connected
\* and another got a channel error during a command; both released once.
C10_Witness ==
  \E q1, q2 \in Requests :
    /\ runs[q1].error.kind = "read" /\ runs[q1].connects = 1 /\ runs[q1].ends = 1
    /\ runs[q2].error.kind = "channel" /\ runs[q2].connects = 1 /\ runs[q2].ends = 1

\* The run of q has reached the KillingProcesses step.
KillingStarted(q) == Len(runs[q].sent) >= 2

\* C11: whatever happens while one configured name is killed (an exit code,
\* or an error of the channel), the run goes on to the next name and ends
\* done: a run that has started to kill never fails, and once every command
\* it sent has given its result, all names have been handled and it is done.
C11_KillFailuresNonFatal ==
  \A q \in Requests :
    KillingStarted(q) =>
      /\ runs[q].pc \in {"killing", "done"}
      /\ (Len(runs[q].results) = Len(runs[q].sent) =>
            /\ runs[q].pc = "done"
            /\ Len(runs[q].sent) = 1 + Len(BROWSERS_TO_KILL))

\* The scenario of C12: a block request whose run connected, whose upload
\* exited 0 and whose two pkill calls exited 0 and 1.
ScenarioA(q) ==
  /\ requests[q].type = "block"
  /\ runs[q].shouldBlock
  /\ runs[q].connects = 1
  /\ Len(runs[q].results) = 3
  /\ runs[q].results[1] = [kind |-> "exit", code |-> 0]
  /\ runs[q].pkillCodes = <<0, 1>>

\* C12 (state part): in that scenario the run is done without an error, the
\* command-line process has exited with code 0 and the response, once sent,
\* is the 200 one.
C12_AfterScenarioA ==
  \A q \in Requests :
    ScenarioA(q) =>
      /\ runs[q].pc = "done"
      /\ runs[q].error.kind = "none"
      /\ child[q].state \in {"exited", "closed"}
      /\ child[q].code = 0
      /\ (requests[q].phase = "responded" =>
            requests[q].http = 200 /\ requests[q].success)

\* C12 (step part): the step in which the handler of that request finishes
\* leaves lastAction at success for the action type block.
C12_HandlerWritesSuccess ==
  \A q \in Requests :
    (ScenarioA(q) /\ requests[q].phase = "running"
       /\ requests'[q].phase = "responded")
      => lastAction' = [type |-> "block", status |-> "success",
                        message |-> "Chess sites blocked successfully!",
                        timestamp |-> "set"]

\* C12: a block run with no delay, a reachable target, an upload that exits 0
\* and kills that exit 0 and 1 ends done, the process exits 0 and the web
\* app's last-action status is set to success for block.
C12_ScenarioAEndsDone == []C12_AfterScenarioA /\ [][C12_HandlerWritesSuccess]_vars

\* C12 witness: the scenario has happened and the request has been answered.
C12_Witness ==
  \E q \in Requests :
    /\ ScenarioA(q)
    /\ WaitTimeMinutes = 0
    /\ requests[q].phase = "responded"
    /\ lastAction = actionRecord("block", "success")

\* The steps of a run in their order.
StepOrder == <<"idle", "delaying", "connecting", "uploading", "killing", "done">>

StepIndex(pc) == CHOOSE i \in 1..Len(StepOrder) : StepOrder[i] = pc

\* C13 (state part): commands are executed only on a connection that is
\* ready, the first command is the upload and every later one is a kill, and
\* the step the run is in agrees with the commands it has executed.
C13_CommandsInOrder ==
  \A q \in Requests :
    /\ (Len(runs[q].sent) > 0 => runs[q].connects = 1)
    /\ (runs[q].pc \in {"idle", "delaying", "connecting", "cancelled"} =>
          runs[q].sent = <<>>)
    /\ \A i \in 1..Len(runs[q].sent) : IsKillCommand(runs[q].sent[i]) <=> i >= 2
    /\ (runs[q].pc = "uploading" => Len(runs[q].sent) = 1)
    /\ (runs[q].pc = "killing" => Len(runs[q].sent) >= 2)
    /\ (runs[q].pc = "done" => Len(runs[q].sent) = 1 + Len(BROWSERS_TO_KILL))

\* C13 (step part): a run only moves from a step to the next one of the
\* order, or from a step that is not terminal to failed, or is cancelled with
\* its process during the delay; done and failed are never left.
C13_NextStepOnly ==
  \A q \in Requests :
    runs'[q].pc # runs[q].pc =>
      \/ /\ runs[q].pc \in {"idle", "delaying", "connecting", "uploading", "killing"}
         /\ runs'[q].pc \in {"delaying", "connecting", "uploading", "killing", "done"}
         /\ StepIndex(runs'[q].pc) = StepIndex(runs[q].pc) + 1
      \/ /\ runs[q].pc \in {"delaying", "connecting", "uploading", "killing"}
         /\ runs'[q].pc = "failed"
      \/ /\ runs[q].pc = "delaying"
         /\ runs'[q].pc = "cancelled"

\* C13: every run passes through Delaying, Connecting, Uploading,
\* KillingProcesses, Done in this order; no command is executed before the
\* connection is ready, the upload comes before any kill, and Failed is
\* entered only from a step that is not terminal.
C13_FixedStepOrder == []C13_CommandsInOrder /\ [][C13_NextStepOnly]_vars

\* C13 witness: one run went through all steps, another failed while killing.
C13_Witness ==
  \E q1, q2 \in Requests :
    /\ runs[q1].pc = "done" /\ Len(runs[q1].sent) = 3
    /\ runs[q2].pc = "failed" /\ Len(runs[q2].sent) = 2

\* The kill command for one name, as text.
KillCommandFor(name) ==
  <<"p","k","i","l","l"," ","-","f"," ","'">> \o name
    \o <<"'"," ","|","|"," ","t","r","u","e">>

\* C33: a run that has reached KillingProcesses has executed one upload
\* command and then, in the configured order, one kill command for each name
\* it has come to, each built from that name alone; when the run is done, it
\* has executed one for every name.
C33_OneKillPerName ==
  \A q \in Requests :
    Len(runs[q].sent) >= 2 =>
      /\ ~IsKillCommand(runs[q].sent[1])
      /\ Len(runs[q].sent) <= 1 + Len(BROWSERS_TO_KILL)
      /\ \A i \in 2..Len(runs[q].sent) :
           runs[q].sent[i] = KillCommandFor(BROWSERS_TO_KILL[i - 1])
      /\ (runs[q].pc = "killing" => runs[q].killIndex = Len(runs[q].sent) - 1)
      /\ (runs[q].pc = "done" => Len(runs[q].sent) = 1 + Len(BROWSERS_TO_KILL))

\* C33 witness: a run is done after the kill commands for firefox and for
\* brave, which got different exit codes from pkill.
C33_Witness ==
  \E q \in Requests :
    /\ runs[q].pc = "done"
    /\ runs[q].sent[2] = KillCommandFor(<<"f","i","r","e","f","o","x">>)
    /\ runs[q].sent[3] = KillCommandFor(<<"b","r","a","v","e">>)
    /\ runs[q].pkillCodes = <<PKILL_NO_PROCESSES_CODE, PKILL_SUCCESS_CODE>>

\* The connection attempt of the run of q failed.
ConnectFailed(q) == runs[q].error.kind \in ConnectFailures

\* C14: after a failed connection attempt the run is failed with that error,
\* no command was or will be executed on the connection, which never became
\* ready, and the command-line process has exited with code 1.
C14_ConnectFailureAborts ==
  \A q \in Requests :
    ConnectFailed(q) =>
      /\ runs[q].pc = "failed"
      /\ runs[q].connects = 0
      /\ runs[q].sent = <<>>
      /\ runs[q].results = <<>>
      /\ child[q].state \in {"exited", "closed"}
      /\ child[q].code = 1

\* C14 witness: a timeout failed one run and an error event another, and
\* both processes have closed.
C14_Witness ==
  \E q1, q2 \in Requests :
    /\ runs[q1].error.kind = "connectTimeout"
    /\ runs[q2].error.kind \in {"authError", "networkError"}
    /\ child[q1].state = "closed"
    /\ child[q2].state = "closed"

\* C15: with the configured delay of zero minutes the Delaying step is
\* skipped: no run waits for a firing of the interval, none installs the
\* SIGINT handler of the timer, and so none is cancelled by it.
C15_ZeroDelaySkipsTimer ==
  WaitTimeMinutes = 0 =>
    \A q \in Requests :
      /\ runs[q].pc \notin {"delaying", "cancelled"}
      /\ ~runs[q].sigintHandler
      /\ runs[q].elapsedSeconds = 0

(***************************************************************************)
(* Properties of the front-ends.                                           *)
(***************************************************************************)
\* The upload command for the policy file of an intent.
UploadOf(shouldBlock) ==
  buildCompleteUploadCommand(
    ConfiguredPassword,
    LocalFileContent(IF shouldBlock THEN "hostsuncommented" ELSE "hostscommented"))

\* C16: the upload command of every run carries the policy file of the
\* run's own intent: the blocked file for a run started to block, the
\* allowed file for a run started to allow.
C16_UploadsOwnPolicy ==
  \A q \in Requests :
    Len(runs[q].sent) >= 1 => runs[q].sent[1] = UploadOf(runs[q].shouldBlock)

\* The remote session of the run of q is open: the connection became ready
\* and conn.end() has not been called.
SessionOpen(q) == runs[q].connects = 1 /\ runs[q].ends = 0

\* C17 as stated: at no time are the sessions of two runs open.
C17_AtMostOneSession == Cardinality({q \in Requests : SessionOpen(q)}) <= 1

\* C17 as amended: every run opens at most one session, and it is open
\* exactly while the run is uploading or killing; nothing keeps the sessions
\* of different runs apart.
C17_OneSessionPerRun ==
  \A q \in Requests :
    /\ runs[q].connects <= 1
    /\ (SessionOpen(q) <=> runs[q].pc \in {"uploading", "killing"})

\* C17 witness: the sessions of two runs are open at the same time, each run
\* with one session.
C17_Witness ==
  \E q1, q2 \in Requests :
    /\ q1 # q2
    /\ SessionOpen(q1) /\ runs[q1].pc = "killing"
    /\ SessionOpen(q2) /\ runs[q2].pc = "uploading"

\* C18: a webhook request whose parsed intent is unrecognized is answered
\* with status "ignored", by the only response of the request, and starts
\* no run: no call of suspendChess, no timer, no connection, no command.
C18_UnrecognizedIgnored ==
  \A q \in Requests :
    hooks[q].shouldBlock = "null" =>
      /\ Len(hooks[q].responses) = 1
      /\ hooks[q].responses[1].status = "ignored"
      /\ hooks[q].responses[1].http = 200
      /\ hooks[q].events = <<"res.json">>
      /\ runs[q].pc = "idle"
      /\ ~runs[q].sigintHandler
      /\ runs[q].connects = 0
      /\ runs[q].sent = <<>>

\* C18 witness: the body {message: "hello", tags: []} has been answered,
\* after a request that started a run.
C18_Witness ==
  \E q1, q2 \in Requests :
    /\ hooks[q1].phase = "awaiting"
    /\ hooks[q2].message = Val(<<"h","e","l","l","o">>)
    /\ hooks[q2].tags = Val(<<>>)
    /\ hooks[q2].phase = "ignored"

\* C19 (state part): a webhook request whose parsed intent is block or allow
\* has exactly one response, accepted with the action of the intent, and the
\* handler sent it before it called suspendChess.
C19_AcceptedFirst ==
  \A q \in Requests :
    hooks[q].shouldBlock \in {"true", "false"} =>
      /\ Len(hooks[q].responses) = 1
      /\ hooks[q].responses[1].http = 200
      /\ hooks[q].responses[1].status = "accepted"
      /\ hooks[q].responses[1].action =
           (IF hooks[q].shouldBlock = "true" THEN "blocking" ELSE "allowing")
      /\ Len(hooks[q].events) >= 2
      /\ hooks[q].events[1] = "res.json"
      /\ hooks[q].events[2] = "suspendChess"

\* C19 (step part): a response that went out is never changed, whatever the
\* run does afterwards.
C19_ResponseKept ==
  \A q \in Requests :
    hooks[q].responses # <<>> => hooks'[q].responses = hooks[q].responses

\* C19: for a block or allow command the accepted response, with action
\* blocking or allowing, is sent before the run starts and does not depend on
\* how the run ends.
C19_AcceptedBeforeRun == []C19_AcceptedFirst /\ [][C19_ResponseKept]_vars

\* C19 witness: a block request whose run succeeded and an allow request
\* whose run failed, each with its accepted response.
C19_Witness ==
  \E q1, q2 \in Requests :
    /\ hooks[q1].shouldBlock = "true" /\ runs[q1].pc = "done"
    /\ hooks[q1].responses[1].action = "blocking"
    /\ hooks[q2].shouldBlock = "false" /\ runs[q2].pc = "failed"
    /\ hooks[q2].responses[1].action = "allowing"

\* C20: after every end of a connection, however it ended, the subscriber
\* waits the reconnect delay and then opens the next one: every call of
\* fetch but the first follows the firing of the timeout.
C20_ReconnectsAfterDelay ==
  subscriber.opens >= 2 =>
    /\ subscriber.endedHow \in {"networkError", "httpError", "readError", "done"}
    /\ subscriber.openedHow = "afterDelay"

(***************************************************************************)
(* Properties of the web app.                                              *)
(***************************************************************************)
\* C23: a request gets at most one response, and gets it in the step in
\* which its process closes or fails to spawn: status 200 with success true
\* and the success message when the process exited with code 0, status 500
\* with success false, the failure message and an error field otherwise.
C23_OneResponsePerRequest ==
  \A q \in Requests :
    LET r == requests[q]
    IN  /\ r.sendCalls <= 1
        /\ (r.phase = "responded") = (r.sendCalls = 1)
        /\ (child[q].state \in {"closed", "spawnError"}) = (r.phase = "responded")
        /\ r.phase = "responded" =>
             IF child[q].code = 0
             THEN /\ r.http = 200 /\ r.success
                  /\ r.message = successMessage(r.type)
                  /\ ~r.errorField
             ELSE /\ r.http = 500 /\ ~r.success
                  /\ r.message = errorMessage(r.type)
                  /\ r.errorField

\* C23 witness: one request was answered with 200 after its process exited
\* with code 0; the process of another could not be spawned, the request was
\* answered with 500, and the close event that followed sent nothing more.
C23_Witness ==
  \E q1, q2 \in Requests :
    /\ requests[q1].http = 200 /\ child[q1].code = 0 /\ child[q1].state = "closed"
    /\ requests[q2].http = 500 /\ child[q2].code = -1 /\ child[q2].state = "closed"
    /\ requests[q2].sendCalls = 1

AllNull == [type |-> "null", status |-> "null", message |-> "null", timestamp |-> "null"]

C24_StatusShape ==
  LET got == statusResponse(lastAction)
  IN  IF \A q \in Requests : requests[q].phase = "none"
      THEN got = AllNull
      ELSE /\ got.type \in {"block", "allow"}
           /\ got.status \in {"running", "success", "error"}
           /\ got.message # "null"
           /\ got.timestamp # "null"

C24_LastWriterWins ==
  /\ \A q \in Requests :
       requests'[q].phase # requests[q].phase =>
         LET r == requests'[q]
             status == IF r.phase = "running" THEN "running"
                       ELSE IF r.success THEN "success" ELSE "error"
         IN  statusResponse(lastAction') =
               [type |-> r.type, status |-> status,
                message |-> (IF status = "running" THEN runningMessage(r.type)
                             ELSE IF status = "success" THEN successMessage(r.type)
                             ELSE errorMessage(r.type)),
                timestamp |-> "set"]
  /\ (\A q \in Requests : requests'[q].phase = requests[q].phase)
       => lastAction' = lastAction

\* C24: GET /api/status answers with the all-null object until the first
\* block or allow request; afterwards with a type, a status and a non-null
\* message and timestamp, which are those of the handler that wrote last:
\* every start and every end of a handler overwrites the object, and nothing
\* else changes it.
C24_StatusIsLastWrite == []C24_StatusShape /\ [][C24_LastWriterWins]_vars

\* C24 witness: an allow request is still running, and the status is the
\* success of a block request that was answered after the allow request had
\* started.
C24_Witness ==
  \E q1, q2 \in Requests :
    /\ q1 < q2
    /\ requests[q1].type = "block" /\ requests[q1].phase = "responded"
    /\ requests[q2].type = "allow" /\ requests[q2].phase = "running"
    /\ statusResponse(lastAction) = actionRecord("block", "success")

\* C38 as stated: when the status is success or error no request is
\* running, and when a request is running the status is running with the
\* type of that request.
C38_StatusMatchesRunning ==
  /\ lastAction.status \in {"success", "error"} =>
       \A q \in Requests : requests[q].phase # "running"
  /\ \A q \in Requests :
       requests[q].phase = "running" =>
         lastAction.status = "running" /\ lastAction.type = requests[q].type

\* The request whose handler started last (requests are numbered as they
\* arrive).
LastStarted ==
  CHOOSE q \in Requests :
    /\ requests[q].phase # "none"
    /\ \A k \in Requests : requests[k].phase # "none" => k <= q

\* C38, amended: the status is that of the last writer.  When it is running,
\* the request that arrived last is still running and the status has its
\* type; when it is success or error, it is the outcome of a request that has
\* been answered, with that request's type.
C38_StatusOfLastWriter ==
  /\ lastAction.status = "running" =>
       /\ requests[LastStarted].phase = "running"
       /\ lastAction.type = requests[LastStarted].type
  /\ lastAction.status \in {"success", "error"} =>
       \E q \in Requests :
         /\ requests[q].phase = "responded"
         /\ requests[q].type = lastAction.type
         /\ requests[q].success = (lastAction.status = "success")

\* C38 witness: the status is the success of an allow request while the block
\* request that arrived before it is still running.
C38_Witness ==
  \E q1, q2 \in Requests :
    /\ q1 < q2
    /\ requests[q1].type = "block" /\ requests[q1].phase = "running"
    /\ requests[q2].type = "allow" /\ requests[q2].phase = "responded"
    /\ lastAction = actionRecord("allow", "success")

(***************************************************************************)
(* Properties of the command-line entry point.                             *)
(***************************************************************************)
EqualIgnoringCase(a, b) ==
  /\ Len(a) = Len(b)
  /\ \A i \in 1..Len(a) : LowerChar(a[i]) = LowerChar(b[i])

\* main has run up to its first await or its exit.
MainRan(q) == child[q].state \notin {"none", "spawned"}

RunStartedWith(q, shouldBlock) ==
  /\ runs[q].pc # "idle"
  /\ runs[q].shouldBlock = shouldBlock
  /\ ~child[q].usage

UsageExit(q) ==
  /\ child[q].usage
  /\ child[q].state = "exited"
  /\ child[q].code = 1
  /\ runs[q] = IdleRun

\* C25: without an argument the run is made with the configured default;
\* with one argument that is block or allow in any letter case, with that
\* intent; with any other argument, or more than one, the process prints the
\* usage text and exits with code 1, and no timer was started and no
\* connection opened.
C25_ArgumentsChooseIntent ==
  \A q \in Requests :
    MainRan(q) =>
      LET args == child[q].args
      IN  IF args = <<>> THEN RunStartedWith(q, DefaultSuspendChess)
          ELSE IF Len(args) = 1 /\ EqualIgnoringCase(args[1], ARG_BLOCK)
            THEN RunStartedWith(q, TRUE)
          ELSE IF Len(args) = 1 /\ EqualIgnoringCase(args[1], ARG_ALLOW)
            THEN RunStartedWith(q, FALSE)
          ELSE UsageExit(q)

\* C25 witness: the process was given two arguments and has exited.
C25_Witness ==
  /\ Len(child[CliProcess].args) = 2
  /\ child[CliProcess].state = "exited"
  /\ child[CliProcess].usage

C27_HandlerOnlyWhileDelaying ==
  \A q \in Requests :
    /\ runs[q].pc = "delaying" => runs[q].sigintHandler
    /\ runs[q].pc \in {"connecting", "uploading", "killing", "done", "failed"}
         => ~runs[q].sigintHandler
    /\ runs[q].pc = "cancelled" =>
         /\ runs[q].connects = 0
         /\ runs[q].sent = <<>>
         /\ child[q].state = "exited"

C27_CancelledOnlyFromDelay ==
  \A q \in Requests :
    /\ (runs'[q].pc = "cancelled" /\ runs[q].pc # "cancelled")
         => (runs[q].pc = "delaying" /\ child'[q].state = "exited")
    /\ runs[q].pc = "cancelled" => (runs'[q] = runs[q] /\ child'[q] = child[q])

\* C27: the SIGINT handler of the countdown is installed exactly while the
\* run is in its delay; the interrupt it handles ends the process before a
\* connection was opened or a command sent, and nothing of the run happens
\* afterwards; in the later steps the handler is removed, so no interrupt
\* cancels the run through it.
C27_InterruptDuringDelay ==
  []C27_HandlerOnlyWhileDelaying /\ [][C27_CancelledOnlyFromDelay]_vars

\* C27 witness: an allow run was cancelled during its delay.
C27_Witness ==
  /\ runs[CliProcess].pc = "cancelled"
  /\ ~runs[CliProcess].shouldBlock
  /\ runs[CliProcess].elapsedSeconds = 0

C29_ReadFailureSendsNothing ==
  \A q \in Requests :
    runs[q].error.kind = "read" =>
      /\ runs[q].pc = "failed"
      /\ runs[q].sent = <<>>
      /\ runs[q].results = <<>>
      /\ child[q].code = EXIT_ERROR

C29_UploadsFileAsRead ==
  \A q \in Requests :
    (runs[q].pc = "connecting" /\ runs'[q].pc = "uploading") =>
      LET fileName == IF runs[q].shouldBlock THEN "hostsuncommented"
                      ELSE "hostscommented"
      IN  runs'[q].sent =
            <<buildCompleteUploadCommand(ConfiguredPassword, localFiles[fileName])>>

\* C29: the text that is uploaded is the whole text that the file of the
\* run's intent (the blocked variant for block, the allowed variant for
\* allow) holds at the time the run reads it, whatever it held before; when
\* the file cannot be read the run fails with the read error, no command is
\* sent and the process exits with code 1.
C29_PolicyReadAtRunTime ==
  []C29_ReadFailureSendsNothing /\ [][C29_UploadsFileAsRead]_vars

\* C29 witness: the allowed variant was emptied after the process had
\* started, and the allow run uploads the empty text.
C29_Witness ==
  /\ runs[CliProcess].pc = "uploading"
  /\ ~runs[CliProcess].shouldBlock
  /\ localFiles["hostscommented"] = <<>>
  /\ runs[CliProcess].sent = <<buildCompleteUploadCommand(ConfiguredPassword, <<>>)>>

(***************************************************************************)
(* Properties of the subscriber.                                           *)
(***************************************************************************)
\* The run q is between the call of suspendChess and its return.
InFlight(q) == proc.up /\ runs[q].pc \in {"delaying", "connecting", "uploading", "killing"}

\* The log without what was logged at the end of runs: one entry for every
\* line that was dispatched.
LinesLog == SelectSeq(subscriber.log, LAMBDA e : e \notin {"completed", "failed"})

\* What is to be done with a line, told from the line alone.
Disposition(line) ==
  IF ~line.json THEN "invalid"
  ELSE IF line.event = "keepalive" THEN "keepalive"
  ELSE IF parseChessCommand(line.message, line.tags) = "null" THEN "unrecognized"
  ELSE "run"

C21_Sequential ==
  /\ Cardinality({q \in Requests : InFlight(q)}) <= 1
  /\ \A q \in Requests :
       InFlight(q) => subscriber.pc = "handling" /\ q = subscriber.started
  /\ Len(LinesLog) + Len(subscriber.lines) = Len(subscriber.chunk)
  /\ subscriber.lines =
       SubSeq(subscriber.chunk, Len(LinesLog) + 1, Len(subscriber.chunk))
  /\ \A i \in 1..Len(LinesLog) : LinesLog[i] = Disposition(subscriber.chunk[i])
  /\ \A i \in 1..(Len(subscriber.log) - 1) :
       subscriber.log[i] = "run" => subscriber.log[i + 1] \in {"completed", "failed"}

C21_FailedRunContinues ==
  \A q \in Requests :
    (InFlight(q) /\ runs'[q].pc = "failed") =>
      /\ proc'.up
      /\ subscriber'.opens = subscriber.opens
      /\ subscriber'.pc \in {"handling", "reading"}
      /\ Len(subscriber'.log) > Len(subscriber.log)
      /\ SubSeq(subscriber'.log, 1, Len(subscriber.log) + 1) =
           Append(subscriber.log, "failed")
      /\ subscriber.lines # <<>> => Len(subscriber'.lines) < Len(subscriber.lines)

\* C21: the subscriber handles the lines of a chunk one at a time and in
\* their order: at most one run is in flight, it is the run of the line
\* dispatched last, and no later line is dispatched before it has ended; when
\* a run fails, the failure is logged, the process and the connection stay,
\* and the loop goes on to the next line.
C21_OneRunAtATime == []C21_Sequential /\ [][C21_FailedRunContinues]_vars

\* C21 witness: two commands came in one chunk; the run of the first failed
\* and the run of the second is in flight.
C21_Witness ==
  /\ proc.up
  /\ subscriber.log = <<"run", "failed", "run">>
  /\ runs[1].pc = "failed"
  /\ InFlight(2)

C22_SkippedInOrder ==
  /\ \A i \in 1..Len(LinesLog) :
       LET line == subscriber.chunk[i]
       IN  /\ ~line.json => LinesLog[i] = "invalid"
           /\ (line.json /\ line.event = "keepalive") => LinesLog[i] = "keepalive"
           /\ (LinesLog[i] \in {"invalid", "keepalive"} /\ i < Len(subscriber.chunk))
                => i < Len(LinesLog)
  /\ Cardinality({q \in Requests : runs[q].pc # "idle"}) = subscriber.started

C22_RunsOnlyForMessages ==
  \A q \in Requests :
    (runs[q].pc = "idle" /\ runs'[q].pc # "idle") =>
      /\ subscriber'.log # <<>>
      /\ subscriber'.log[Len(subscriber'.log)] = "run"
      /\ LET line == subscriber'.chunk[Len(subscriber'.chunk) - Len(subscriber'.lines)]
         IN  line.json /\ line.event # "keepalive"

C22_SkipKeepsLoop ==
  (/\ subscriber.pc = "reading"
   /\ subscriber'.log # <<>>
   /\ subscriber'.log[Len(subscriber'.log)] \in {"invalid", "keepalive"}
   /\ subscriber'.pc \notin {"fetching", "waiting"})
    => /\ subscriber'.pc = "reading"
       /\ subscriber'.opens = subscriber.opens
       /\ subscriber'.lines = <<>>

\* C22: a keepalive entry is skipped and starts no run, whatever its message
\* and tags say, and a line that is not JSON is skipped; after either the
\* loop goes on to the next line, and after the last line to the next read
\* on the same connection.
C22_KeepaliveAndInvalidSkipped ==
  /\ []C22_SkippedInOrder
  /\ [][C22_RunsOnlyForMessages /\ C22_SkipKeepsLoop]_vars

\* C22 witness: a chunk of a line that is not JSON and a keepalive entry
\* whose message is a block keyword was read, and no run was started.
C22_Witness ==
  /\ subscriber.pc = "reading"
  /\ subscriber.chunk = <<InvalidLine, Entry("keepalive", Val(<<"b","l","o","c","k">>), Undefined)>>
  /\ subscriber.log = <<"invalid", "keepalive">>
  /\ subscriber.started = 0

(***************************************************************************)
(* Properties of the target host.                                          *)
(***************************************************************************)
\* Session q's command ends with exit code 0 on this step.
UploadSucceeds(q) ==
  /\ target.shells[q].pc = "running"
  /\ target'.shells[q].pc = "exited"
  /\ target'.shells[q].code = 0

\* C28 as stated: after every successful upload the backup file holds the
\* text that the upload replaced in the hosts file, also when the commands of
\* two runs interleave.
C28_BackupHoldsReplaced ==
  [][\A q \in Requests :
       UploadSucceeds(q) =>
         target'.files[REMOTE_HOSTS_BACKUP_PATH] = target'.shells[q].replaced]_vars

\* C28, amended: after every successful upload that no other upload's
\* overwrite of the hosts file came between its copy and its own overwrite,
\* the backup file holds the text that the upload replaced in the hosts file.
C28_BackupHoldsReplacedUndisturbed ==
  [][\A q \in Requests :
       (UploadSucceeds(q) /\ ~target'.shells[q].disturbed) =>
         /\ target'.shells[q].copied /\ target'.shells[q].overwrote
         /\ target'.files[REMOTE_HOSTS_BACKUP_PATH] = target'.shells[q].replaced
         /\ target'.files[REMOTE_HOSTS_BACKUP_PATH] = target.files[REMOTE_HOSTS_PATH]]_vars

\* An upload has succeeded while another session's command was between its
\* copy and its overwrite, and the backup holds the text the upload replaced,
\* which is an earlier upload's text.
C28_Witness ==
  \E q \in Requests, r \in Requests :
    /\ q # r
    /\ target.shells[q].pc = "exited" /\ target.shells[q].code = 0
    /\ ~target.shells[q].disturbed
    /\ target.shells[r].pc = "running" /\ target.shells[r].copied
    /\ target.files[REMOTE_HOSTS_BACKUP_PATH] = target.shells[q].replaced
    /\ target.shells[q].replaced # TargetHostsText

\* The cp of session q has failed: its command is over without a copy.
CpFailed(q) == target.shells[q].pc = "exited" /\ ~target.shells[q].copied

\* C34 (state part): a command whose cp failed has not overwritten the hosts
\* file, and its exit code is one that uploadHostsFile takes as a failure.
C34_NoOverwriteAfterCpFailure ==
  \A q \in Requests :
    CpFailed(q) =>
      /\ ~target.shells[q].overwrote
      /\ target.shells[q].code # 0
      /\ uploadFailed(target.shells[q].code)

\* C34 (step part): the step on which a session's cp fails changes no file,
\* and only a session's own overwrite makes it one that has overwritten.
C34_FailingStepKeepsFiles ==
  \A q \in Requests :
    /\ (target.shells[q].pc = "running" /\ target'.shells[q].pc = "exited"
          /\ ~target'.shells[q].copied) => target'.files = target.files
    /\ (~target'.shells[q].overwrote /\ target.shells[q].pc # "none"
          /\ target'.shells[q].pc # "none" /\ \A r \in Requests \ {q} :
               target'.shells[r].overwrote = target.shells[r].overwrote)
         => target'.files[REMOTE_HOSTS_PATH] = target.files[REMOTE_HOSTS_PATH]

\* C34: the upload command overwrites the hosts file only after its cp has
\* succeeded; when the cp fails the file keeps its content and the command
\* ends with a non-zero exit code, which fails the upload.
C34_OverwriteOnlyAfterBackup ==
  []C34_NoOverwriteAfterCpFailure /\ [][C34_FailingStepKeepsFiles]_vars

\* C34 witness: a command has ended with code 1 at its cp, and the hosts file
\* holds what an earlier upload wrote.
C34_Witness ==
  \E q \in Requests :
    /\ CpFailed(q)
    /\ target.shells[q].code = 1
    /\ target.files[REMOTE_HOSTS_PATH] # TargetHostsText
    /\ target.files[REMOTE_HOSTS_BACKUP_PATH] = TargetHostsText

(***************************************************************************)
(* Properties of the profile monitor.                                      *)
(***************************************************************************)
\* C30: a suppression flag is cleared only by a poll at which the account's
\* value was under the limit (so a poll whose request failed does not clear
\* it, and the alert is not repeated while the value stays at or over the
\* limit).
C30_ClearedOnlyUnderLimit ==
  [][/\ (monitor.alertState.gameCountExceeded /\ ~monitor'.alertState.gameCountExceeded)
          => ~monitor'.observed.gamesOver
     /\ (monitor.alertState.totalTimeExceeded /\ ~monitor'.alertState.totalTimeExceeded)
          => ~monitor'.observed.timeOver]_vars

\* A poll has cleared the game-count flag after a failed request, while the
\* account was at the limit.
C30_FlagLostOnFailure ==
  /\ monitor.pc = "waiting"
  /\ monitor.observed.gamesFailed
  /\ monitor.observed.gamesOver
  /\ ~monitor.alertState.gameCountExceeded

\* Local midnight passes on this step.
MidnightPasses == lichess.played > 0 /\ lichess'.played = 0

\* C31: once monitoring has started, at each local midnight previousState and
\* alertState are set back to their initial values and the reset timer is
\* armed for the following midnight.
C31_ResetAtMidnight ==
  [][(MidnightPasses /\ monitor.pc # "loaded") =>
       /\ monitor'.previousState = InitialPreviousState
       /\ monitor'.alertState = InitialAlertState
       /\ monitor'.resetTimer = "armed"]_vars

\* A poll ends on this step, and its second request was answered.
PollEndsWithTimes ==
  /\ monitor.pc = "fetchingTimes"
  /\ monitor'.pc = "waiting"
  /\ ~monitor'.observed.timeFailed

\* C32: the total time that a poll takes from the account's games of today is
\* the sum of the per-game estimates, which is min(b, m*30 + m*i) for a game
\* with a clock of b seconds and increment i, and m*60 only for a game
\* without a clock.
C32_TotalOfClockEstimates ==
  [][PollEndsWithTimes =>
       monitor'.previousState.totalTimeSeconds = sumGameTimes(GamesOf(lichess))]_vars

\* C36: suspendChess leaves SSH_CONFIG.suspendChess as it found it; when no
\* call is in flight any more, whatever calls overlapped, the value is the
\* configured default.
C36_DefaultIntentRestored ==
  (proc.up /\ \A q \in Requests : runs[q].pc \in {"idle", "done", "failed"})
    => \A p \in DOMAIN cfgSuspendChess : cfgSuspendChess[p] = DefaultSuspendChess

\* C37: for every webhook request the handler calls res.json at most once,
\* and no error leaves the handler (its promise does not reject).
C37_OneResponseAttempt ==
  \A q \in DOMAIN hooks :
    /\ hooks[q].sendCalls <= 1
    /\ hooks[q].phase # "rejected"

\* C40: whatever exit code pkill itself has, the code that the run gets for
\* a kill command that has ended is 0 and killBrowserProcess takes the
\* branch of success; the branches for code 1 and for other codes are never
\* taken.
C40_KillCodeAlwaysZero ==
  \A q \in DOMAIN runs :
    /\ \A i \in 2..Len(runs[q].results) :
         runs[q].results[i].kind = "exit" => runs[q].results[i].code = 0
    /\ \A i \in 1..Len(runs[q].killLog) : runs[q].killLog[i] = "killed"
    /\ Len(runs[q].killLog) = Len(runs[q].pkillCodes)

\* C40 witness: pkill found no firefox process and failed for brave, and
\* both kills were logged as successful.
C40_Witness ==
  \E q \in DOMAIN runs :
    /\ runs[q].pkillCodes = <<PKILL_NO_PROCESSES_CODE, 2>>
    /\ runs[q].killLog = <<"killed", "killed">>
    /\ runs[q].pc = "done"

(***************************************************************************)
(* Properties of the framing.                                              *)
(***************************************************************************)
\* The lines of a text that a newline ends, in order, found by the
\* positions of the newlines.
TerminatedLines(text) ==
  LET ends == {i \in 1..Len(text) : text[i] = "\n"}
      end(k) == CHOOSE i \in ends : Cardinality({j \in ends : j < i}) = k - 1
      start(k) == IF k = 1 THEN 1 ELSE end(k - 1) + 1
  IN  [k \in 1..Cardinality(ends) |-> SubSeq(text, start(k), end(k) - 1)]

\* What follows the last newline of a text.
UnterminatedTail(text) ==
  LET ends == {i \in 1..Len(text) : text[i] = "\n"}
      last == IF ends = {} THEN 0 ELSE CHOOSE i \in ends : \A j \in ends : j <= i
  IN  SubSeq(text, last + 1, Len(text))

NotBlank(line) == \E i \in 1..Len(line) : line[i] # " "

\* C35: however the stream is cut into chunks, the lines handled so far are
\* the non-blank lines that a newline ends in the part of the stream read so
\* far, each once and in order; the buffer holds the unterminated tail; and
\* when the stream ends the tail is dropped and was not handled.
C35_LineFraming ==
  proc.program = "subscriber" /\ "stream" \in DOMAIN subscriber =>
    LET read == SubSeq(subscriber.stream, 1, subscriber.pos)
    IN  /\ subscriber.handled = SelectSeq(TerminatedLines(read), NotBlank)
        /\ subscriber.pc = "reading" => subscriber.buffer = UnterminatedTail(read)
        /\ subscriber.pc = "ended" =>
             /\ subscriber.pos = Len(subscriber.stream)
             /\ subscriber.buffer = <<>>

\* C35 witness: a stream of a line, a blank line and an unterminated tail has
\* ended; a chunk ended inside the first line, and that line alone was
\* handled.
C35_Witness ==
  /\ "stream" \in DOMAIN subscriber
  /\ subscriber.pc = "ended"
  /\ subscriber.stream = <<"x","x","\n","\n","x">>
  /\ 1 \in subscriber.cuts
  /\ subscriber.handled = << <<"x","x">> >>

====
